---- MODULE Spec2Model ----
(***************************************************************************)
(* Sticky dark-pool level memory (dp_memory.py), its callers in the bot    *)
(* (discord_bot.py) and the accumulation archive (accumulation.py).        *)
(*                                                                         *)
(* Prices are integers in mills (1/1000 of a dollar): 601.07 is 601070.    *)
(* Dates are day numbers; datetime.now() is the variable today.            *)
(***************************************************************************)
EXTENDS Integers, Sequences, FiniteSets, TLC

VARIABLES
    memFile,    \* dp_memory.json: [kind, data], data = ticker -> list of levels
    today,      \* the calendar day datetime.now() falls on
    ncalls,     \* number of store-writing operations run so far
    nsteps,     \* number of day changes so far
    last,       \* what the last operation read, computed and returned
    dpFeed,     \* data/<TICKER>_dp.csv of the chart feed: the rows pushed
    nfill,      \* number of daily scans already stored while the bot filled up
    thr,        \* the pool threads running update_levels: position and locals
    accDir,     \* DATA_DIR of the accumulation archive: present, absent, blocked
    accFile,    \* accumulation.json: [kind, data], data = ticker -> day -> trades
    clock       \* the minute of the day, UTC, datetime.now(timezone.utc) falls on

vars == <<memFile, today, ncalls, nsteps, last, dpFeed, nfill, thr, accDir, accFile, clock>>

accVars == <<accDir, accFile>>

----------------------------------------------------------------------------
(* Program constants of dp_memory.py *)

HIT_TOLERANCE_NUM == 15          \* HIT_TOLERANCE = 0.0015 = 15 / 10000
HIT_TOLERANCE_DEN == 10000
MAX_AGE_DAYS == 14
MIN_VOLUME_TO_REMEMBER == 250000
MAX_NEW_PER_DAY == 3
MAX_LEVELS == 20                 \* active[:20]

(* Bounds of the model *)

MaxCalls == 2                    \* store-writing operations per behaviour
MaxDaySteps == 2                 \* day changes per behaviour
LadderScans == 7                 \* three-zone scans that fill the store first

----------------------------------------------------------------------------
(* Helpers *)

Abs(x) == IF x < 0 THEN 0 - x ELSE x

Max(a, b) == IF a > b THEN a ELSE b

Range(s) == {s[i] : i \in 1..Len(s)}

\* Op applied to the value of v, which is computed once
Bind(v, Op(_)) == CHOOSE r \in {Op(x) : x \in {v}} : TRUE

\* round(x, 2) on a price in mills: the nearest cent.  The inputs below never
\* end in 5 mills, where the binary representation of the float decides.
Round2(p) == ((p + 5) \div 10) * 10

\* str.upper() on the ticker spellings the bot receives
Upper(t) ==
    CASE t = "qqq" -> "QQQ"
      [] t = "gld" -> "GLD"
      [] t = "gold" -> "GOLD"
      [] OTHER -> t

----------------------------------------------------------------------------
(* load_memory / save_memory *)

EmptyStore == [t \in {"QQQ", "GLD"} |-> <<>>]

\* load_memory(): the parsed file, or the default store when the file is
\* missing or json.load raises
LoadMemory(file) == IF file.kind = "ok" THEN file.data ELSE EmptyStore

\* save_memory(memory): the file after the write; a failing write is logged
\* and leaves the file as it was
SaveMemory(file, memory, writeOk) ==
    IF writeOk THEN [kind |-> "ok", data |-> memory] ELSE file

\* variant: the store written holds the ticker's entry alone
StorePut_Alone(memory, t, levels) == [k \in {t} |-> levels]

\* memory[ticker] = levels, adding the key when it is new
StorePut(memory, t, levels) ==
    [k \in DOMAIN memory \cup {t} |-> IF k = t THEN levels ELSE memory[k]]

\* memory.get(ticker, [])
StoreGet(memory, t) == IF t \in DOMAIN memory THEN memory[t] ELSE <<>>

----------------------------------------------------------------------------
(* update_levels, step 1: drop expired and hit levels *)

AgeDays(lvl, now) == now - lvl.added

\* variant: a level expires on its 14th day already
IsExpired_AtMaxAge(lvl, now) == AgeDays(lvl, now) >= MAX_AGE_DAYS

IsExpired(lvl, now) == AgeDays(lvl, now) > MAX_AGE_DAYS

\* variant: the distance is taken without abs()
IsHit_Signed(lvl, cur) ==
    /\ cur > 0
    /\ (cur - lvl.price) * HIT_TOLERANCE_DEN < HIT_TOLERANCE_NUM * cur

\* abs(current_price - price) / current_price < HIT_TOLERANCE, tested only
\* when current_price is given and positive (0 stands for None)
IsHit(lvl, cur) ==
    /\ cur > 0
    /\ Abs(cur - lvl.price) * HIT_TOLERANCE_DEN < HIT_TOLERANCE_NUM * cur

MarkHitLevels(existing, cur, now) ==
    SelectSeq(existing, LAMBDA lvl : ~IsExpired(lvl, now) /\ ~IsHit(lvl, cur))

----------------------------------------------------------------------------
(* sorted(..., key=volume, reverse=True): stable, descending *)

RECURSIVE InsertByVolume(_, _)
InsertByVolume(sorted, x) ==
    IF sorted = <<>> THEN <<x>>
    ELSE IF Head(sorted).volume >= x.volume
         THEN <<Head(sorted)>> \o InsertByVolume(Tail(sorted), x)
         ELSE <<x>> \o sorted

RECURSIVE SortByVolumeDesc(_)
SortByVolumeDesc(s) ==
    IF s = <<>> THEN <<>>
    ELSE InsertByVolume(SortByVolumeDesc(SubSeq(s, 1, Len(s) - 1)), s[Len(s)])

----------------------------------------------------------------------------
(* update_levels, step 2: add or refresh levels from the scan *)

\* index of the first active level whose rounded price is strike_r
RECURSIVE FirstMatch(_, _, _)
FirstMatch(active, strike_r, i) ==
    IF i > Len(active) THEN 0
    ELSE IF Round2(active[i].price) = strike_r THEN i
         ELSE FirstMatch(active, strike_r, i + 1)

\* variant: the stored volume is overwritten by the volume seen last
RefreshLevel_Overwrite(a, volume, now) ==
    [a EXCEPT !.volume = volume, !.last_seen = now,
              !.seen_count = a.seen_count + 1]

\* the body of "for a in active: if round(a['price'], 2) == strike_r: ..."
RefreshLevel(a, volume, now) ==
    IF volume > a.volume
    THEN [a EXCEPT !.volume = volume, !.last_seen = now,
                   !.seen_count = a.seen_count + 1]
    ELSE [a EXCEPT !.seen_count = a.seen_count + 1]

NewLevel(zone, now) ==
    [price |-> zone.strike, volume |-> zone.volume, trades |-> zone.trades,
     type |-> zone.type, added |-> now, last_seen |-> now, seen_count |-> 1]

\* variant: the rounded price of a new level is not added to existing_prices
AddCandidate_PriceNotRecorded(st, zone, now) ==
    LET strike_r == Round2(zone.strike) IN
    IF zone.volume < MIN_VOLUME_TO_REMEMBER THEN st
    ELSE IF strike_r \in st.prices
    THEN LET i == FirstMatch(st.active, strike_r, 1) IN
         IF i = 0 THEN st
         ELSE [st EXCEPT !.active[i] = RefreshLevel(st.active[i], zone.volume, now)]
    ELSE IF st.new_count >= MAX_NEW_PER_DAY THEN st
    ELSE [active |-> Append(st.active, NewLevel(zone, now)),
          prices |-> st.prices,
          new_count |-> st.new_count + 1]

\* variant: the volume threshold is not applied
AddCandidate_NoThreshold(st, zone, now) ==
    LET strike_r == Round2(zone.strike) IN
    IF strike_r \in st.prices
    THEN LET i == FirstMatch(st.active, strike_r, 1) IN
         IF i = 0 THEN st
         ELSE [st EXCEPT !.active[i] = RefreshLevel(st.active[i], zone.volume, now)]
    ELSE IF st.new_count >= MAX_NEW_PER_DAY THEN st
    ELSE [active |-> Append(st.active, NewLevel(zone, now)),
          prices |-> st.prices \cup {strike_r},
          new_count |-> st.new_count + 1]

\* variant: refreshing a tracked level counts against the new-level budget
AddCandidate_RefreshCounts(st, zone, now) ==
    LET strike_r == Round2(zone.strike) IN
    IF zone.volume < MIN_VOLUME_TO_REMEMBER THEN st
    ELSE IF strike_r \in st.prices
    THEN LET i == FirstMatch(st.active, strike_r, 1) IN
         IF i = 0 THEN st
         ELSE [st EXCEPT !.active[i] = RefreshLevel(st.active[i], zone.volume, now),
                         !.new_count = st.new_count + 1]
    ELSE IF st.new_count >= MAX_NEW_PER_DAY THEN st
    ELSE [active |-> Append(st.active, NewLevel(zone, now)),
          prices |-> st.prices \cup {strike_r},
          new_count |-> st.new_count + 1]

\* one iteration of "for lvl in candidates"; st = [active, prices, new_count]
AddCandidate(st, zone, now) ==
    LET strike_r == Round2(zone.strike) IN
    IF zone.volume < MIN_VOLUME_TO_REMEMBER THEN st
    ELSE IF strike_r \in st.prices
    THEN LET i == FirstMatch(st.active, strike_r, 1) IN
         IF i = 0 THEN st
         ELSE [st EXCEPT !.active[i] = RefreshLevel(st.active[i], zone.volume, now)]
    ELSE IF st.new_count >= MAX_NEW_PER_DAY THEN st
    ELSE [active |-> Append(st.active, NewLevel(zone, now)),
          prices |-> st.prices \cup {strike_r},
          new_count |-> st.new_count + 1]

RECURSIVE AddCandidates(_, _, _)
AddCandidates(st, candidates, now) ==
    IF candidates = <<>> THEN st
    ELSE AddCandidates(AddCandidate(st, Head(candidates), now),
                       Tail(candidates), now)

AddNewLevels(active, new_levels, now) ==
    AddCandidates([active |-> active,
                   prices |-> {Round2(active[i].price) : i \in 1..Len(active)},
                   new_count |-> 0],
                  SortByVolumeDesc(new_levels), now)

----------------------------------------------------------------------------
(* update_levels, step 3: sort and keep the top MAX_LEVELS *)

\* variant: the slice keeps the tail of the sorted list
KeepTop_Tail(active) ==
    SubSeq(active, IF Len(active) < MAX_LEVELS THEN 1 ELSE Len(active) - MAX_LEVELS + 1,
           Len(active))

\* active[:20]
KeepTop(active) ==
    SubSeq(active, 1, IF Len(active) < MAX_LEVELS THEN Len(active) ELSE MAX_LEVELS)

\* update_levels(ticker, new_levels, current_price) run on the loaded store:
\* every intermediate list of the function
UpdateLevelsRun(memory, ticker, new_levels, cur, now) ==
    LET t == Upper(ticker)
        existing == StoreGet(memory, t)
        kept == MarkHitLevels(existing, cur, now)
        st == AddNewLevels(kept, new_levels, now)
        sorted == SortByVolumeDesc(st.active)
    IN [ticker |-> t,
        before |-> existing,
        kept |-> kept,
        merged |-> st.active,
        new_count |-> st.new_count,
        result |-> KeepTop(sorted)]

----------------------------------------------------------------------------
(* get_active_levels / get_top_zones *)

\* get_active_levels(ticker, current_price): "if not current_price" returns
\* the stored list; otherwise the levels at least HIT_TOLERANCE away
GetActiveLevels(memory, ticker, cur) ==
    LET levels == StoreGet(memory, Upper(ticker)) IN
    IF cur = 0 THEN levels
    ELSE SelectSeq(levels, LAMBDA lvl :
            Abs(cur - lvl.price) * HIT_TOLERANCE_DEN >= HIT_TOLERANCE_NUM * cur)

RECURSIVE InsertByPrice(_, _)
InsertByPrice(sorted, x) ==
    IF sorted = <<>> THEN <<x>>
    ELSE IF Head(sorted).price <= x.price
         THEN <<Head(sorted)>> \o InsertByPrice(Tail(sorted), x)
         ELSE <<x>> \o sorted

RECURSIVE SortByPrice(_)
SortByPrice(s) ==
    IF s = <<>> THEN <<>>
    ELSE InsertByPrice(SortByPrice(SubSeq(s, 1, Len(s) - 1)), s[Len(s)])

\* get_top_zones(ticker, n, current_price): top n by volume, in price order
GetTopZones(memory, ticker, n, cur) ==
    LET active == SortByVolumeDesc(GetActiveLevels(memory, ticker, cur))
    IN SortByPrice(SubSeq(active, 1, IF Len(active) < n THEN Len(active) ELSE n))

----------------------------------------------------------------------------
(* The inputs: zones of a dark-pool scan, spot prices, ticker spellings *)

Zone(strike, volume, trades, type) ==
    [strike |-> strike, volume |-> volume, trades |-> trades, type |-> type]

Z1 == Zone(601070, 1209524, 697, "Block Trade")
Z2 == Zone(601830, 427961, 292, "DP Support")
Z3 == Zone(613000, 850000, 400, "DP Resistance")
Z4 == Zone(600070, 363714, 587, "DP Support")
Z5 == Zone(595000, 50000, 100, "DP Support")       \* below the threshold
Z6 == Zone(601074, 1500000, 310, "Block Trade")    \* the cent of Z1, more volume
Z7 == Zone(620000, 250000, 120, "DP Resistance")   \* exactly the threshold

Scans ==
    { <<>>, <<Z1>>, <<Z6>>, <<Z5>>, <<Z7>>,
      <<Z1, Z2, Z3, Z4, Z5>>,          \* the scan of the module's self-test
      <<Z1, Z6>> }                     \* two zones of one cent

\* current_price: 0 stands for None (run_gex failed)
Spots == {0, 601080}

Tickers == {"QQQ", "GLD"}

\* dp_ticker = "GLD" if ticker.upper() in ("GLD", "GOLD") else ticker.upper()
DpTicker(ticker) ==
    IF Upper(ticker) \in {"GLD", "GOLD"} THEN "GLD" ELSE Upper(ticker)

NoRun ==
    [ticker |-> "", before |-> <<>>, kept |-> <<>>, merged |-> <<>>,
     new_count |-> 0, result |-> <<>>]

Idle ==
    [op |-> "none", caller |-> "", ticker |-> "", zones |-> <<>>, price |-> 0, now |-> 0,
     run |-> NoRun, unreadable |-> FALSE, raised |-> FALSE, out |-> <<>>]

\* asyncio.to_thread runs each update_levels call in a thread of the pool;
\* the scheduled job and a chat command can be in flight together
Threads == {"scheduled", "command"}

IdleThread ==
    [pc |-> "idle", ticker |-> "", zones |-> <<>>, price |-> 0, memory |-> <<>>]

----------------------------------------------------------------------------
(* Operations *)

Init ==
    /\ memFile = [kind |-> "missing", data |-> EmptyStore]
    /\ today = 0
    /\ ncalls = 0
    /\ nsteps = 0
    /\ last = Idle
    /\ dpFeed = [t \in Tickers |-> <<>>]
    /\ nfill = 0
    /\ thr = [th \in Threads |-> IdleThread]
    /\ accDir = "absent"
    /\ accFile = [kind |-> "missing", data |-> <<>>]
    /\ clock = 0

\* the effect of update_levels(ticker, new_levels, current_price) on the
\* file, with what it computed on the way
UpdateLevelsFrom(caller, ticker, new_levels, cur) ==
    LET run == UpdateLevelsRun(LoadMemory(memFile), ticker, new_levels, cur, today)
    IN /\ memFile' = SaveMemory(memFile,
                        StorePut(LoadMemory(memFile), run.ticker, run.result),
                        memFile.kind # "denied")
       /\ last' = [op |-> "update_levels", caller |-> caller, ticker |-> run.ticker,
                   zones |-> new_levels, price |-> cur, now |-> today, run |-> run,
                   unreadable |-> memFile.kind # "ok", raised |-> FALSE,
                   out |-> run.result]

\* update_levels called by the module's self-test or a manual command
UpdateLevelsCall(ticker, new_levels, cur) ==
    UpdateLevelsFrom("update_levels", ticker, new_levels, cur)

\* update_levels(ticker, new_levels, current_price), called directly
\* (the module's self-test does)
UpdateLevels(ticker, new_levels, cur) ==
    /\ ncalls < MaxCalls
    /\ UpdateLevelsCall(ticker, new_levels, cur)
    /\ ncalls' = ncalls + 1
    /\ UNCHANGED <<today, nsteps, dpFeed, clock, nfill, thr, accVars>>

\* the clock passes midnight, once or over a two-week pause
NextDay(d) ==
    /\ nsteps < MaxDaySteps
    /\ today' = today + d
    /\ nsteps' = nsteps + 1
    /\ UNCHANGED <<memFile, ncalls, last, dpFeed, clock, nfill, thr, accVars>>

Next ==
    \/ \E t \in Tickers, z \in Scans, p \in Spots : UpdateLevels(t, z, p)
    \/ \E d \in {1, MAX_AGE_DAYS} : NextDay(d)

Spec == Init /\ [][Next]_vars

----------------------------------------------------------------------------
(* A store that has filled up: the first scans bring three new zones each, *)
(* a dollar apart and of growing volume, before the scans above arrive.    *)

LadderZone(i) == Zone(500000 + 1000 * i, 300000 + 1000 * i, 10, "DP Support")

LadderScan(k) == <<LadderZone(3 * k - 2), LadderZone(3 * k - 1), LadderZone(3 * k)>>

\* scans that arrive once the store is filling: two large new zones, a zone
\* of the ladder seen again, a new zone of the least volume that qualifies
CapScans == { <<>>, <<Z1, Z3>>, <<LadderZone(10)>>, <<Z7>> }

\* 510.00 is the price of the ladder level seen again
CapSpots == {0, 510000}

\* update_levels("QQQ", <the next scan of the filling phase>, None)
FillScan ==
    /\ ncalls = 0
    /\ nsteps = 0
    /\ nfill < LadderScans
    /\ UpdateLevelsCall("QQQ", LadderScan(nfill + 1), 0)
    /\ nfill' = nfill + 1
    /\ UNCHANGED <<today, ncalls, nsteps, dpFeed, clock, thr, accVars>>

CapNext ==
    \/ FillScan
    \/ \E z \in CapScans, p \in CapSpots : UpdateLevels("QQQ", z, p)
    \/ \E d \in {1, MAX_AGE_DAYS} : NextDay(d)

CapSpec == Init /\ [][CapNext]_vars

----------------------------------------------------------------------------
(* Two update_levels calls in flight: each runs in its own pool thread,    *)
(* and nothing in dp_memory.py serialises load_memory .. save_memory.      *)

RaceScans == { <<Z1>>, <<Z3>>, <<Z6>> }

\* await asyncio.to_thread(dp_memory_update, dp_ticker, levels, spot)
ThreadCall(th, ticker, new_levels, cur) ==
    /\ thr[th].pc = "idle"
    /\ thr' = [thr EXCEPT ![th] = [pc |-> "called", ticker |-> ticker,
                                   zones |-> new_levels, price |-> cur,
                                   memory |-> <<>>]]
    /\ UNCHANGED <<memFile, today, ncalls, nsteps, last, dpFeed, clock, nfill, accVars>>

\* memory = load_memory(): a file another thread has opened for writing and
\* not yet written does not parse, and the default store is returned
ThreadLoad(th) ==
    /\ thr[th].pc = "called"
    /\ thr' = [thr EXCEPT ![th].pc = "loaded", ![th].memory = LoadMemory(memFile)]
    /\ UNCHANGED <<memFile, today, ncalls, nsteps, last, dpFeed, clock, nfill, accVars>>

\* steps 1 to 3 on the loaded copy, then save_memory: open(MEMORY_FILE, 'w')
\* empties the file
ThreadOpen(th) ==
    LET me == thr[th]
        run == UpdateLevelsRun(me.memory, me.ticker, me.zones, me.price, today)
    IN /\ me.pc = "loaded"
       /\ memFile' = [kind |-> "truncated", data |-> EmptyStore]
       /\ thr' = [thr EXCEPT ![th].pc = "writing",
                             ![th].memory = StorePut(me.memory, run.ticker, run.result)]
       /\ UNCHANGED <<today, ncalls, nsteps, last, dpFeed, clock, nfill, accVars>>

\* json.dump(memory, f) and the close of the file: the file holds this
\* thread's store
ThreadDump(th) ==
    /\ thr[th].pc = "writing"
    /\ memFile' = [kind |-> "ok", data |-> thr[th].memory]
    /\ thr' = [thr EXCEPT ![th].pc = "done"]
    /\ UNCHANGED <<today, ncalls, nsteps, last, dpFeed, clock, nfill, accVars>>

RaceNext ==
    \/ \E th \in Threads, t \in Tickers, z \in RaceScans, p \in Spots :
          ThreadCall(th, t, z, p)
    \/ \E th \in Threads : ThreadLoad(th)
    \/ \E th \in Threads : ThreadOpen(th)
    \/ \E th \in Threads : ThreadDump(th)

RaceSpec == Init /\ [][RaceNext]_vars

----------------------------------------------------------------------------
(* accumulation.py: the archive of daily prints *)

CLUSTER_PCT_NUM == 3             \* CLUSTER_PCT = 0.003 = 3 / 1000
CLUSTER_PCT_DEN == 1000
MIN_DAYS == 2
MIN_VOLUME == 100000
WINDOW_DAYS == 7                 \* timedelta(days=7)
LOOKBACK_DAYS == 7               \* lookback_days: int = 7
TOP_SIGNALS == 5                 \* signals[:5]

EmptyDict == <<>>

DictPut(dict, key, value) ==
    [k \in DOMAIN dict \cup {key} |-> IF k = key THEN value ELSE dict[k]]

\* _ensure_dir(): os.makedirs(DATA_DIR, exist_ok=True) creates the directory,
\* or raises where it cannot be created
EnsureDir(dir) ==
    [raised |-> dir = "blocked",
     dir |-> IF dir = "absent" THEN "present" ELSE dir]

\* _load(): _ensure_dir() runs before the try; any failure to open or parse
\* the file gives {}
AccLoad(dir, file) ==
    LET e == EnsureDir(dir) IN
    [raised |-> e.raised, dir |-> e.dir,
     data |-> IF ~e.raised /\ file.kind = "ok" THEN file.data ELSE EmptyDict]

\* _save(data): _ensure_dir(), open(ACCUM_FILE, 'w') and json.dump, none of
\* them guarded
AccSave(dir, file, data) ==
    LET e == EnsureDir(dir) IN
    IF e.raised \/ file.kind = "denied"
    THEN [raised |-> TRUE, dir |-> e.dir, file |-> file]
    ELSE [raised |-> FALSE, dir |-> e.dir, file |-> [kind |-> "ok", data |-> data]]

\* the list comprehension of save_daily_prints
TradesOf(prints) ==
    [i \in 1..Len(prints) |->
        [price |-> prints[i].price, shares |-> prints[i].shares, side |-> prints[i].side]]

\* save_daily_prints(ticker, prints_data): [raised, dir, file]
SaveDailyPrintsRun(dir, file, ticker, prints, now) ==
    IF prints = <<>> THEN [raised |-> FALSE, dir |-> dir, file |-> file]
    ELSE LET l == AccLoad(dir, file) IN
         IF l.raised THEN [raised |-> TRUE, dir |-> l.dir, file |-> file]
         ELSE LET old == IF ticker \in DOMAIN l.data THEN l.data[ticker] ELSE EmptyDict
                  cutoff == now - WINDOW_DAYS
                  days == {d \in DOMAIN old \cup {now} : d >= cutoff}
                  kept == [d \in days |-> IF d = now THEN TradesOf(prints) ELSE old[d]]
              IN AccSave(l.dir, file, DictPut(l.data, ticker, kept))

RECURSIVE SumShares(_)
SumShares(ts) == IF ts = <<>> THEN 0 ELSE Head(ts).shares + SumShares(Tail(ts))

RECURSIVE Gcd(_, _)
Gcd(a, b) == IF b = 0 THEN a ELSE Gcd(b, a % b)

RECURSIVE GcdShares(_)
GcdShares(ts) == IF ts = <<>> THEN 0 ELSE Gcd(Head(ts).shares, GcdShares(Tail(ts)))

RECURSIVE SumWeighted(_, _)
SumWeighted(ts, g) ==
    IF ts = <<>> THEN 0
    ELSE Head(ts).price * (Head(ts).shares \div g) + SumWeighted(Tail(ts), g)

\* sum(price * shares) / sum(shares) as the fraction ref_n / ref_d, both
\* sums divided by the greatest common divisor of the shares
WeightedRef(ts) ==
    LET g == GcdShares(ts) IN
    [ref_n |-> SumWeighted(ts, g), ref_d |-> SumShares(ts) \div g]

\* "for date, trades in relevant.items()": the days in the order they were
\* written, each trade tagged with its date
RECURSIVE AllTrades(_, _)
AllTrades(byDay, days) ==
    IF days = {} THEN <<>>
    ELSE LET d == CHOOSE x \in days : \A y \in days : x <= y
         IN [i \in 1..Len(byDay[d]) |->
                [date |-> d, price |-> byDay[d][i].price,
                 shares |-> byDay[d][i].shares, side |-> byDay[d][i].side]]
            \o AllTrades(byDay, days \ {d})

\* "for cluster in clusters": the first cluster whose ref_price is within
\* CLUSTER_PCT (|price - ref| / ref <= 0.003, over integers) takes the trade
\* and recomputes ref_price = ref_n / ref_d; a division by zero raises
RECURSIVE PlaceTrade(_, _, _)
PlaceTrade(clusters, i, trade) ==
    IF i > Len(clusters)
    THEN [raised |-> FALSE,
          clusters |-> Append(clusters, [ref_n |-> trade.price, ref_d |-> 1,
                                         trades |-> <<trade>>])]
    ELSE LET c == clusters[i] IN
         IF c.ref_n = 0 THEN [raised |-> TRUE, clusters |-> clusters]
         ELSE IF Abs(trade.price * c.ref_d - c.ref_n)
                    <= (CLUSTER_PCT_NUM * c.ref_n) \div CLUSTER_PCT_DEN
         THEN LET ts == Append(c.trades, trade) IN
              IF SumShares(ts) = 0 THEN [raised |-> TRUE, clusters |-> clusters]
              ELSE [raised |-> FALSE,
                    clusters |-> [clusters EXCEPT ![i] =
                        [ref_n |-> WeightedRef(ts).ref_n, ref_d |-> WeightedRef(ts).ref_d,
                         trades |-> ts]]]
         ELSE PlaceTrade(clusters, i + 1, trade)

RECURSIVE BuildClusters(_, _)
BuildClusters(st, trades) ==
    IF trades = <<>> \/ st.raised THEN st
    ELSE BuildClusters(PlaceTrade(st.clusters, 1, Head(trades)), Tail(trades))

\* round(cluster['ref_price'], 2) of the price ref_n / ref_d, in mills
RoundRatio2(n, d) == ((2 * n + 10 * d) \div (20 * d)) * 10

SideVolume(ts, side) == SumShares(SelectSeq(ts, LAMBDA t : t.side = side))

\* the signal of a cluster; strength is in units of 1/100000
SignalOf(c) ==
    LET days_active == Cardinality({c.trades[i].date : i \in 1..Len(c.trades)})
        bid_vol == SideVolume(c.trades, "Bid")
        ask_vol == SideVolume(c.trades, "Ask")
    IN [price |-> RoundRatio2(c.ref_n, c.ref_d), days |-> days_active,
        total_vol |-> SumShares(c.trades), bid_vol |-> bid_vol, ask_vol |-> ask_vol,
        total_trades |-> Len(c.trades),
        bias |-> IF bid_vol > ask_vol THEN "BULLISH" ELSE "BEARISH",
        strength |-> days_active * SumShares(c.trades)]

RECURSIVE InsertByStrength(_, _)
InsertByStrength(sorted, x) ==
    IF sorted = <<>> THEN <<x>>
    ELSE IF Head(sorted).strength >= x.strength
         THEN <<Head(sorted)>> \o InsertByStrength(Tail(sorted), x)
         ELSE <<x>> \o sorted

RECURSIVE SortByStrengthDesc(_)
SortByStrengthDesc(s) ==
    IF s = <<>> THEN <<>>
    ELSE InsertByStrength(SortByStrengthDesc(SubSeq(s, 1, Len(s) - 1)), s[Len(s)])

\* the signals of the clusters that pass MIN_DAYS and MIN_VOLUME
RECURSIVE Signals(_)
Signals(clusters) ==
    IF clusters = <<>> THEN <<>>
    ELSE LET sig == SignalOf(Head(clusters)) IN
         (IF sig.days < MIN_DAYS \/ sig.total_vol < MIN_VOLUME THEN <<>> ELSE <<sig>>)
         \o Signals(Tail(clusters))

\* detect_accumulation(ticker, lookback_days): [raised, dir, clusters, signals]
DetectAccumulationRun(dir, file, ticker, lookback, now) ==
    LET l == AccLoad(dir, file)
        byDay == IF ticker \in DOMAIN l.data THEN l.data[ticker] ELSE EmptyDict
        relevant == {d \in DOMAIN byDay : d >= now - lookback}
        built == BuildClusters([raised |-> FALSE, clusters |-> <<>>],
                               SortByPrice(AllTrades(byDay, relevant)))
        sorted == SortByStrengthDesc(Signals(built.clusters))
    IN IF l.raised \/ built.raised
       THEN [raised |-> TRUE, dir |-> l.dir, clusters |-> built.clusters,
             signals |-> <<>>]
       ELSE [raised |-> FALSE, dir |-> l.dir, clusters |-> built.clusters,
             signals |-> SubSeq(sorted, 1, IF Len(sorted) < TOP_SIGNALS
                                           THEN Len(sorted) ELSE TOP_SIGNALS)]

----------------------------------------------------------------------------
(* The bot: dark-pool retrievals, !dpmem, the archive of prints, and a
   file system that can fail *)

Trade(price, shares, side) == [price |-> price, shares |-> shares, side |-> side]

P1 == Trade(601000, 60000, "Bid")
P2 == Trade(601500, 50000, "Ask")
P3 == Trade(650000, 200000, "Bid")

PrintSets == {<<>>, <<P1, P2, P3>>, <<P2>>}

BotScans == {<<>>, <<Z1>>, <<Z3, Z5>>}

BotTickers == {"QQQ", "GOLD"}

\* the state of the disk when the bot starts: DATA_DIR exists, or can be
\* created, or cannot
BotInit ==
    /\ memFile = [kind |-> "missing", data |-> EmptyStore]
    /\ today = 0
    /\ ncalls = 0
    /\ nsteps = 0
    /\ last = Idle
    /\ dpFeed = [t \in Tickers |-> <<>>]
    /\ nfill = 0
    /\ thr = [th \in Threads |-> IdleThread]
    /\ accDir \in {"present", "absent", "blocked"}
    /\ accFile = [kind |-> "missing", data |-> EmptyDict]
    /\ clock = 0

\* _push_dp_to_tradingview(ticker, dp, spot): the memory update, then
\* "from darkpool import get_top_dp_zones", a name darkpool.py does not
\* define: the ImportError is caught by "except Exception" and the push to
\* the feed is not reached
PushDpToTradingview(ticker, dp_levels, spot) ==
    /\ ncalls < MaxCalls
    /\ IF dp_levels # <<>>
       THEN UpdateLevelsFrom("_push_dp_to_tradingview", DpTicker(ticker), dp_levels, spot)
       ELSE /\ last' = [Idle EXCEPT !.caller = "_push_dp_to_tradingview",
                                    !.ticker = DpTicker(ticker), !.price = spot,
                                    !.now = today]
            /\ UNCHANGED memFile
    /\ ncalls' = ncalls + 1
    /\ UNCHANGED <<today, nsteps, dpFeed, clock, nfill, thr, accVars>>

\* !dpmem: format_memory_discord(dp_ticker, spot) reads
\* get_active_levels(ticker, current_price)
CmdDpMem(ticker, spot) ==
    /\ ncalls < MaxCalls
    /\ last' = [op |-> "get_active_levels", caller |-> "cmd_dpmem",
                ticker |-> DpTicker(ticker),
                zones |-> <<>>, price |-> spot, now |-> today, run |-> NoRun,
                unreadable |-> memFile.kind # "ok", raised |-> FALSE,
                out |-> GetActiveLevels(LoadMemory(memFile), DpTicker(ticker), spot)]
    /\ ncalls' = ncalls + 1
    /\ UNCHANGED <<memFile, today, nsteps, dpFeed, clock, nfill, thr, accVars>>

\* save_daily_prints(ticker, {'prints': prints})
SaveDailyPrints(ticker, prints) ==
    LET r == SaveDailyPrintsRun(accDir, accFile, ticker, prints, today) IN
    /\ ncalls < MaxCalls
    /\ accDir' = r.dir
    /\ accFile' = r.file
    /\ last' = [op |-> "save_daily_prints", caller |-> "save_daily_prints",
                ticker |-> ticker, zones |-> prints,
                price |-> 0, now |-> today, run |-> NoRun,
                unreadable |-> accDir # "present" \/ accFile.kind # "ok",
                raised |-> r.raised,
                out |-> IF r.raised THEN EmptyDict ELSE r.file.data]
    /\ ncalls' = ncalls + 1
    /\ UNCHANGED <<memFile, today, nsteps, dpFeed, clock, nfill, thr>>

\* detect_accumulation(ticker)
DetectAccumulation(ticker) ==
    LET r == DetectAccumulationRun(accDir, accFile, ticker, LOOKBACK_DAYS, today) IN
    /\ ncalls < MaxCalls
    /\ accDir' = r.dir
    /\ last' = [op |-> "detect_accumulation", caller |-> "detect_accumulation",
                ticker |-> ticker, zones |-> r.clusters,
                price |-> 0, now |-> today, run |-> NoRun,
                unreadable |-> accDir # "present" \/ accFile.kind # "ok",
                raised |-> r.raised, out |-> r.signals]
    /\ ncalls' = ncalls + 1
    /\ UNCHANGED <<memFile, today, nsteps, dpFeed, clock, nfill, thr, accFile>>

\* dp_memory.json is overwritten with something that is not JSON, or loses
\* its permissions
DamageMemory(kind) ==
    /\ memFile.kind = "ok"
    /\ memFile' = [kind |-> kind,
                   data |-> IF kind = "denied" THEN memFile.data ELSE EmptyStore]
    /\ UNCHANGED <<today, ncalls, nsteps, last, dpFeed, clock, nfill, thr, accVars>>

\* the same for accumulation.json
DamageArchive(kind) ==
    /\ accDir = "present"
    /\ accFile.kind = "ok"
    /\ accFile' = [kind |-> kind,
                   data |-> IF kind = "denied" THEN accFile.data ELSE EmptyDict]
    /\ UNCHANGED <<memFile, today, ncalls, nsteps, last, dpFeed, clock, nfill, thr, accDir>>

BotNext ==
    \/ \E t \in BotTickers, z \in BotScans, p \in Spots : PushDpToTradingview(t, z, p)
    \/ \E t \in BotTickers, p \in Spots : CmdDpMem(t, p)
    \/ \E t \in Tickers, ps \in PrintSets : SaveDailyPrints(t, ps)
    \/ \E t \in Tickers : DetectAccumulation(t)
    \/ \E k \in {"corrupt", "denied"} : DamageMemory(k)
    \/ \E k \in {"corrupt", "denied"} : DamageArchive(k)
    \/ \E d \in {1, MAX_AGE_DAYS} : NextDay(d)

BotSpec == BotInit /\ [][BotNext]_vars

----------------------------------------------------------------------------
(* darkpool.py: clustering of the observations into zones *)

TOL_DEN == 2000                  \* threshold_pct / 100 as tol / 2000
DEFAULT_TOL == 3                 \* threshold_pct = 0.15: 0.15 / 100 = 3 / 2000

Obs(price, volume, trades) == [price |-> price, volume |-> volume, trades |-> trades]

RECURSIVE SumVolume(_)
SumVolume(ls) == IF ls = <<>> THEN 0 ELSE Head(ls).volume + SumVolume(Tail(ls))

RECURSIVE SumTrades(_)
SumTrades(ls) == IF ls = <<>> THEN 0 ELSE Head(ls).trades + SumTrades(Tail(ls))

RECURSIVE SumPrice(_)
SumPrice(ls) == IF ls = <<>> THEN 0 ELSE Head(ls).price + SumPrice(Tail(ls))

RECURSIVE GcdVolume(_)
GcdVolume(ls) == IF ls = <<>> THEN 0 ELSE Gcd(Head(ls).volume, GcdVolume(Tail(ls)))

RECURSIVE SumPriceVolume(_, _)
SumPriceVolume(ls, g) ==
    IF ls = <<>> THEN 0
    ELSE Head(ls).price * (Head(ls).volume \div g) + SumPriceVolume(Tail(ls), g)

\* sum(price * volume) / max(sum(volume), 1) as the fraction n / d, both
\* sums divided by the greatest common divisor of the volumes
ClusterCenter(cluster) ==
    IF SumVolume(cluster) = 0 THEN [n |-> 0, d |-> 1]
    ELSE LET g == GcdVolume(cluster) IN
         [n |-> SumPriceVolume(cluster, g), d |-> SumVolume(cluster) \div g]

\* abs(lvl['price'] - cluster_center) / cluster_center < tol / 2000, for a
\* centre n / d above zero
WithinCenter(price, c, tol) ==
    Abs(price * c.d - c.n) <= (tol * c.n - 1) \div TOL_DEN

\* the loop over sorted_levels[1:]: st = [raised, clusters, current]
GrowClusters_FirstMember(st, lvl, tol) ==
    IF st.raised THEN st
    ELSE LET c == ClusterCenter(<<Head(st.current)>>) IN
         IF c.n = 0 THEN [st EXCEPT !.raised = TRUE]
         ELSE IF WithinCenter(lvl.price, c, tol)
              THEN [st EXCEPT !.current = Append(st.current, lvl)]
              ELSE [st EXCEPT !.clusters = Append(st.clusters, st.current),
                              !.current = <<lvl>>]

GrowClusters(st, lvl, tol) ==
    IF st.raised THEN st
    ELSE LET c == ClusterCenter(st.current) IN
         IF c.n = 0 THEN [st EXCEPT !.raised = TRUE]
         ELSE IF WithinCenter(lvl.price, c, tol)
              THEN [st EXCEPT !.current = Append(st.current, lvl)]
              ELSE [st EXCEPT !.clusters = Append(st.clusters, st.current),
                              !.current = <<lvl>>]

RECURSIVE GrowAll(_, _, _)
GrowAll(st, ls, tol) ==
    IF ls = <<>> THEN st ELSE GrowAll(GrowClusters(st, Head(ls), tol), Tail(ls), tol)

\* round(vwap, 2): the volume-weighted average price, or the plain average
\* when the cluster has no volume
ZonePrice(cluster) ==
    IF SumVolume(cluster) > 0
    THEN RoundRatio2(ClusterCenter(cluster).n, ClusterCenter(cluster).d)
    ELSE RoundRatio2(SumPrice(cluster), Len(cluster))

\* the zone a cluster is merged into
MergeCluster(cluster) ==
    [price |-> ZonePrice(cluster), volume |-> SumVolume(cluster),
     trades |-> SumTrades(cluster), num_levels |-> Len(cluster)]

\* _cluster_dp_levels(levels, threshold_pct): [raised, clusters, zones]
ClusterDpLevels(levels, tol) ==
    IF levels = <<>> THEN [raised |-> FALSE, clusters |-> <<>>, zones |-> <<>>]
    ELSE LET sorted_levels == SortByPrice(levels)
             st == GrowAll([raised |-> FALSE, clusters |-> <<>>,
                            current |-> <<Head(sorted_levels)>>],
                           Tail(sorted_levels), tol)
             clusters == Append(st.clusters, st.current)
         IN IF st.raised
            THEN [raised |-> TRUE, clusters |-> <<>>, zones |-> <<>>]
            ELSE [raised |-> FALSE, clusters |-> clusters,
                  zones |-> [i \in 1..Len(clusters) |-> MergeCluster(clusters[i])]]

----------------------------------------------------------------------------
(* darkpool.py: direction from prints, the options-derived fallback and
   get_dark_pool_levels *)

SPOT_FILTER_NUM == 1             \* 0.20 = 1 / 5
SPOT_FILTER_DEN == 5
BAND_NUM == 5                    \* 1.005 and 0.995 as (1000 + 5) / 1000, (1000 - 5) / 1000
BAND_DEN == 1000
BLOCK_TRADE_VOLUME == 500000
MAX_ZONES == 8
MIN_RAW_LEVELS == 3
NEAR_NUM == 1                    \* 0.05 = 1 / 20
NEAR_DEN == 20

Take(s, n) == SubSeq(s, 1, IF Len(s) < n THEN Len(s) ELSE n)

RECURSIVE InsertByStrike(_, _)
InsertByStrike(sorted, x) ==
    IF sorted = <<>> THEN <<x>>
    ELSE IF Head(sorted).strike <= x.strike
         THEN <<Head(sorted)>> \o InsertByStrike(Tail(sorted), x)
         ELSE <<x>> \o sorted

RECURSIVE SortByStrike(_)
SortByStrike(s) ==
    IF s = <<>> THEN <<>>
    ELSE InsertByStrike(SortByStrike(SubSeq(s, 1, Len(s) - 1)), s[Len(s)])

\* 'bid' in side.lower() and 'ask' in side.lower(), over the labels a print
\* carries
HasBid(side) == side \in {"Bid", "Below Bid", "Between Bid and Ask"}
HasAsk(side) == side \in {"Ask", "Above Ask", "Between Bid and Ask"}

DpPrint(price, size, side) == [price |-> price, size |-> size, side |-> side]

\* abs(p['price'] - strike) <= strike * (threshold_pct / 100)
NearStrike(price, strike, tol) == Abs(price - strike) * TOL_DEN <= tol * strike

RECURSIVE SideSize(_, _, _, _)
SideSize(prints, strike, tol, which) ==
    IF prints = <<>> THEN 0
    ELSE LET q == Head(prints)
             mine == /\ NearStrike(q.price, strike, tol)
                     /\ IF which = "bid" THEN HasBid(q.side)
                        ELSE ~HasBid(q.side) /\ HasAsk(q.side)
         IN (IF mine THEN q.size ELSE 0) + SideSize(Tail(prints), strike, tol, which)

\* bid_vol > ask_vol * 1.2, ask_vol > bid_vol * 1.2
SideOf_NoMargin(bid_vol, ask_vol) ==
    IF bid_vol > ask_vol THEN "Buy"
    ELSE IF ask_vol > bid_vol THEN "Sell"
    ELSE "Neutral"

SideOf(bid_vol, ask_vol) ==
    IF 5 * bid_vol > 6 * ask_vol THEN "Buy"
    ELSE IF 5 * ask_vol > 6 * bid_vol THEN "Sell"
    ELSE "Neutral"

EnrichLevel(lvl, prints, tol) ==
    LET bid_vol == SideSize(prints, lvl.strike, tol, "bid")
        ask_vol == SideSize(prints, lvl.strike, tol, "ask")
    IN [strike |-> lvl.strike, type |-> lvl.type, volume |-> lvl.volume,
        trades |-> lvl.trades, num_levels |-> lvl.num_levels,
        side |-> SideOf(bid_vol, ask_vol), bid_vol |-> bid_vol, ask_vol |-> ask_vol]

\* enrich_levels_with_direction(levels, prints, threshold_pct)
EnrichLevelsWithDirection(levels, prints, tol) ==
    IF prints = <<>> THEN levels
    ELSE [i \in 1..Len(levels) |-> EnrichLevel(levels[i], prints, tol)]

\* strike > spot * 1.005, strike < spot * 0.995
BandType(strike, spot) ==
    IF strike * BAND_DEN > spot * (BAND_DEN + BAND_NUM) THEN "DP Resistance"
    ELSE IF strike * BAND_DEN < spot * (BAND_DEN - BAND_NUM) THEN "DP Support"
    ELSE "High Volume"

\* the type of a zone of the primary aggregation; spot = 0 stands for None
ZoneType(strike, vol, spot) ==
    IF spot # 0
    THEN IF vol > BLOCK_TRADE_VOLUME THEN "Block Trade" ELSE BandType(strike, spot)
    ELSE "High Volume"

\* the level appended for a clustered zone (dollar_volume, the product
\* strike * volume, is for display only and not carried)
PrimaryLevel(zone, spot) ==
    [strike |-> Round2(zone.price), type |-> ZoneType(zone.price, zone.volume, spot),
     volume |-> zone.volume, trades |-> zone.trades, num_levels |-> zone.num_levels]

\* abs(l['price'] - spot) / spot < 0.20
SpotFilter(levels_data, spot) ==
    IF spot > 0
    THEN SelectSeq(levels_data,
            LAMBDA l : Abs(l.price - spot) * SPOT_FILTER_DEN < SPOT_FILTER_NUM * spot)
    ELSE levels_data

\* sorted(clustered, key=volume, reverse=True)[:8]
TopZones_All(clustered) == SortByVolumeDesc(clustered)

TopZones(clustered) == Take(SortByVolumeDesc(clustered), MAX_ZONES)

\* the chartexchange branch: [raised, filtered, clusters, clustered, levels]
PrimaryAggregation(levels_data, spot) ==
    LET filtered == SpotFilter(levels_data, spot)
        c == ClusterDpLevels(filtered, DEFAULT_TOL)
        top == TopZones(c.zones)
    IN [raised |-> c.raised, filtered |-> filtered, clusters |-> c.clusters,
        clustered |-> c.zones,
        levels |-> IF c.raised THEN <<>>
                   ELSE SortByStrike([i \in 1..Len(top) |-> PrimaryLevel(top[i], spot)])]

GexRow(strike, total_oi, total_volume) ==
    [strike |-> strike, total_oi |-> total_oi, total_volume |-> total_volume]

TotalScore(row) == row.total_volume * 2 + row.total_oi

RECURSIVE InsertByScore(_, _)
InsertByScore(sorted, x) ==
    IF sorted = <<>> THEN <<x>>
    ELSE IF TotalScore(Head(sorted)) >= TotalScore(x)
         THEN <<Head(sorted)>> \o InsertByScore(Tail(sorted), x)
         ELSE <<x>> \o sorted

RECURSIVE SortByScoreDesc(_)
SortByScoreDesc(s) ==
    IF s = <<>> THEN <<>>
    ELSE InsertByScore(SortByScoreDesc(SubSeq(s, 1, Len(s) - 1)), s[Len(s)])

RECURSIVE InsertAsc(_, _)
InsertAsc(sorted, x) ==
    IF sorted = <<>> THEN <<x>>
    ELSE IF Head(sorted) <= x THEN <<Head(sorted)>> \o InsertAsc(Tail(sorted), x)
         ELSE <<x>> \o sorted

RECURSIVE SortAsc(_)
SortAsc(s) ==
    IF s = <<>> THEN <<>>
    ELSE InsertAsc(SortAsc(SubSeq(s, 1, Len(s) - 1)), s[Len(s)])

\* vol > near['total_volume'].quantile(0.9), the quantile interpolated
\* linearly between the two nearest ranks
AboveQuantile90(vol, rows) ==
    LET v == SortAsc([i \in 1..Len(rows) |-> rows[i].total_volume])
        h == 9 * (Len(v) - 1)
        k == (h \div 10) + 1
        r == h % 10
    IN IF r = 0 THEN vol > v[k]
       ELSE 10 * vol > 10 * v[k] + r * (v[k + 1] - v[k])

\* derive_dp_levels_from_options(spot, gex_df)
DeriveDpLevelsFromOptions(spot, gex_df) ==
    IF gex_df = <<>> THEN <<>>
    ELSE LET close == SelectSeq(gex_df,
                        LAMBDA row : Abs(row.strike - spot) * NEAR_DEN <= NEAR_NUM * spot)
             near == SortByScoreDesc(IF close = <<>> THEN gex_df ELSE close)
             head == Take(near, MAX_ZONES)
             level(row) ==
                [strike |-> row.strike,
                 type |-> IF AboveQuantile90(row.total_volume, near) THEN "Block Trade"
                          ELSE BandType(row.strike, spot),
                 volume |-> row.total_volume, oi |-> row.total_oi,
                 score |-> TotalScore(row)]
         IN SortByStrike([i \in 1..Len(head) |-> level(head[i])])

\* get_dark_pool_levels(ticker, spot, gex_df): playwright and api are what
\* fetch_dp_sync and fetch_chartexchange_api return (empty when they fail),
\* cboe what the CBOE chain gives when it is fetched, prints what
\* fetch_prints_sync returns
GetDarkPoolLevelsRun(playwright, api, spot, gex_df, cboe, prints) ==
    LET levels_data == IF Len(playwright) >= MIN_RAW_LEVELS THEN playwright ELSE api
        primary == Len(levels_data) >= MIN_RAW_LEVELS
        agg == PrimaryAggregation(levels_data, spot)
        first == IF primary THEN agg.levels ELSE <<>>
        gex == IF gex_df = <<>> /\ spot # 0 THEN cboe ELSE gex_df
        derived == first = <<>> /\ spot # 0 /\ gex # <<>>
        source == IF derived THEN "options-derived"
                  ELSE IF primary THEN "chartexchange" ELSE "None"
        levels == IF derived THEN DeriveDpLevelsFromOptions(spot, gex) ELSE first
    IN IF primary /\ agg.raised
       THEN [raised |-> TRUE, source |-> "chartexchange", levels_data |-> levels_data,
             primary |-> primary, filtered |-> agg.filtered, clusters |-> <<>>,
             clustered |-> <<>>, zones |-> <<>>, gex |-> gex, prints |-> prints,
             levels |-> <<>>]
       ELSE [raised |-> FALSE, source |-> source, levels_data |-> levels_data,
             primary |-> primary,
             filtered |-> IF primary THEN agg.filtered ELSE <<>>,
             clusters |-> IF primary THEN agg.clusters ELSE <<>>,
             clustered |-> IF primary THEN agg.clustered ELSE <<>>,
             zones |-> first, gex |-> gex, prints |-> prints,
             levels |-> IF levels # <<>> /\ source = "chartexchange"
                        THEN EnrichLevelsWithDirection(levels, prints, DEFAULT_TOL)
                        ELSE levels]

----------------------------------------------------------------------------
(* The dark-pool aggregation on the feeds it can be given *)

FeedPair == <<Obs(459270, 500, 10), Obs(459940, 300, 8)>>

FeedRounded == <<Obs(102160, 5, 2), Obs(102000, 1, 1), Obs(102010, 2, 1)>>

FeedDrift == <<Obs(100000, 1, 1), Obs(100140, 100, 3), Obs(100280, 1, 2)>>

FeedTight == <<Obs(459270, 500, 10), Obs(459350, 200, 5), Obs(459400, 300, 8)>>

FeedFar == <<Obs(600000, 900, 10), Obs(610000, 200, 5), Obs(300000, 300, 8)>>

FeedBlock == <<Obs(470000, 600000, 90), Obs(455000, 700000, 40), Obs(460500, 800000, 70),
               Obs(460600, 400000, 20), Obs(452000, 500000, 30)>>

\* WideLevels observations two dollars apart around 460, one of them far
\* from it
WideLevels == 9

WideObs(i) == Obs(444000 + 2000 * i, 1000 * (1 + ((7 * i) % 10)), i)

FeedWide == [i \in 1..WideLevels |-> WideObs(i)] \o <<Obs(600000, 9500, 3)>>

\* an observation without volume below one with volume, and the reverse
FeedNoVolume == <<Obs(459270, 0, 1), Obs(459350, 500, 5)>>

FeedVolumeFirst == <<Obs(459270, 500, 1), Obs(459350, 0, 5)>>

ApiFeeds == {<<>>, FeedPair, FeedTight, FeedFar, FeedBlock, FeedWide}

PlaywrightFeeds == {<<>>, FeedPair, FeedDrift}

ClusterInputs ==
    {<<>>, FeedPair, FeedRounded, FeedDrift, FeedTight, FeedBlock, FeedWide,
     FeedNoVolume, FeedVolumeFirst}

Tolerances == {1, DEFAULT_TOL, 10}

DpSpots == {0, 460000}

GexFrame ==
    <<GexRow(455000, 3000, 1000), GexRow(460000, 5000, 4000),
      GexRow(465000, 2000, 500), GexRow(520000, 9000, 8000)>>

GexFrames == {<<>>, GexFrame}

DpPrints ==
    {<<>>,
     <<DpPrint(459300, 130000, "Bid"), DpPrint(459600, 100000, "Ask"),
       DpPrint(470100, 100000, "Above Ask"), DpPrint(469900, 120000, "Bid"),
       DpPrint(455100, 100000, "Below Bid"), DpPrint(454900, 150000, "Ask"),
       DpPrint(452000, 200000, "Between Bid and Ask"), DpPrint(452100, 100000, "Mid")>>}

\* the levels enrich_levels_with_direction is called with
EnrichInputs ==
    {PrimaryAggregation(f, 460000).levels : f \in {FeedTight, FeedBlock, FeedWide}}

NoDp ==
    [raised |-> FALSE, source |-> "None", levels_data |-> <<>>, primary |-> FALSE,
     filtered |-> <<>>, clusters |-> <<>>, clustered |-> <<>>, zones |-> <<>>,
     gex |-> <<>>, prints |-> <<>>, levels |-> <<>>]

\* get_dark_pool_levels(ticker, spot, gex_df)
GetDarkPoolLevels(playwright, api, spot, gex_df, cboe, prints) ==
    LET r == GetDarkPoolLevelsRun(playwright, api, spot, gex_df, cboe, prints) IN
    /\ ncalls < MaxCalls
    /\ last' = [Idle EXCEPT !.op = "get_dark_pool_levels",
                            !.caller = "get_dark_pool_levels",
                            !.zones = r.levels_data, !.price = spot, !.now = today,
                            !.raised = r.raised, !.out = r]
    /\ ncalls' = ncalls + 1
    /\ UNCHANGED <<memFile, today, nsteps, dpFeed, clock, nfill, thr, accVars>>

\* _cluster_dp_levels(levels, threshold_pct)
ClusterCall(levels, tol) ==
    LET c == ClusterDpLevels(levels, tol) IN
    /\ ncalls < MaxCalls
    /\ last' = [Idle EXCEPT !.op = "_cluster_dp_levels",
                            !.caller = "_cluster_dp_levels",
                            !.zones = levels, !.price = tol, !.now = today,
                            !.raised = c.raised,
                            !.out = [NoDp EXCEPT !.raised = c.raised,
                                                 !.levels_data = levels,
                                                 !.filtered = levels,
                                                 !.clusters = c.clusters,
                                                 !.clustered = c.zones]]
    /\ ncalls' = ncalls + 1
    /\ UNCHANGED <<memFile, today, nsteps, dpFeed, clock, nfill, thr, accVars>>

\* enrich_levels_with_direction(levels, prints)
EnrichCall(levels, prints) ==
    /\ ncalls < MaxCalls
    /\ last' = [Idle EXCEPT !.op = "enrich_levels_with_direction",
                            !.caller = "enrich_levels_with_direction",
                            !.now = today,
                            !.out = [NoDp EXCEPT !.zones = levels, !.prints = prints,
                                        !.levels = EnrichLevelsWithDirection(
                                                       levels, prints, DEFAULT_TOL)]]
    /\ ncalls' = ncalls + 1
    /\ UNCHANGED <<memFile, today, nsteps, dpFeed, clock, nfill, thr, accVars>>

DpNext ==
    \/ \E pw \in PlaywrightFeeds, api \in ApiFeeds, spot \in DpSpots,
          g \in GexFrames, cboe \in GexFrames, pr \in DpPrints :
          GetDarkPoolLevels(pw, api, spot, g, cboe, pr)
    \/ \E f \in ClusterInputs, tol \in Tolerances : ClusterCall(f, tol)
    \/ \E lv \in EnrichInputs, pr \in DpPrints : EnrichCall(lv, pr)

DpSpec == Init /\ [][DpNext]_vars

----------------------------------------------------------------------------
(* The archive over a week of daily writes *)

ArchiveDays == 7

\* prints without a 'shares' key are stored with shares 0 and side '?'
Q1 == Trade(700000, 0, "?")
Q2 == Trade(700100, 0, "?")

DayPrints == {<<P1, P2, P3>>, <<P3, Q1, Q2>>}

\* the daily job: save_daily_prints for the day's prints, and the day ends
ArchiveDay(prints) ==
    LET r == SaveDailyPrintsRun(accDir, accFile, "QQQ", prints, today) IN
    /\ ncalls = 0
    /\ nsteps = 0
    /\ nfill < ArchiveDays
    /\ accDir' = r.dir
    /\ accFile' = r.file
    /\ last' = [op |-> "save_daily_prints", caller |-> "save_daily_prints",
                ticker |-> "QQQ", zones |-> prints, price |-> 0, now |-> today,
                run |-> NoRun,
                unreadable |-> accDir # "present" \/ accFile.kind # "ok",
                raised |-> r.raised,
                out |-> IF r.raised THEN EmptyDict ELSE r.file.data]
    /\ today' = today + 1
    /\ nfill' = nfill + 1
    /\ UNCHANGED <<memFile, ncalls, nsteps, dpFeed, clock, thr>>

AccNext ==
    \/ \E ps \in DayPrints : ArchiveDay(ps)
    \/ \E ps \in {<<>>, <<P2>>} : SaveDailyPrints("QQQ", ps)
    \/ DetectAccumulation("QQQ")
    \/ NextDay(1)

AccSpec == Init /\ [][AccNext]_vars

----------------------------------------------------------------------------
(* Python floats (gex_calculator.py, barchart_gex.py).                      *)
(*                                                                         *)
(* A float is an IEEE-754 binary64 number: sign, 53-bit mantissa, binary   *)
(* exponent; every product and sum is rounded to the nearest such number,  *)
(* ties to the even mantissa.  The model keeps a float as [neg, m, e] with *)
(* value (-1)^neg * m * 2^e, m an odd natural number below 2^53 (or zero), *)
(* and m as a list of limbs in base 2^15, least significant first, since   *)
(* the mantissa and the 106-bit products are wider than the model          *)
(* checker's integers.  The exponent range of binary64 is not reached by   *)
(* the exposures computed here, so overflow, subnormals, inf and nan are   *)
(* left out.  0.0 and -0.0 compare equal in Python and are one value here. *)

LIMB_BITS == 15

BASE == 2^LIMB_BITS

MANT_BITS == 53                  \* sys.float_info.mant_dig

RECURSIVE Trim(_)
Trim(a) ==
    IF a = <<>> THEN <<>>
    ELSE IF a[Len(a)] = 0 THEN Trim(SubSeq(a, 1, Len(a) - 1))
    ELSE a

RECURSIVE AddCarry(_, _, _)
AddCarry(a, b, c) ==
    IF a = <<>> /\ b = <<>> THEN (IF c = 0 THEN <<>> ELSE <<c>>)
    ELSE LET x == IF a = <<>> THEN 0 ELSE Head(a)
             y == IF b = <<>> THEN 0 ELSE Head(b)
             s == x + y + c
         IN  <<s % BASE>> \o AddCarry(IF a = <<>> THEN <<>> ELSE Tail(a),
                                      IF b = <<>> THEN <<>> ELSE Tail(b),
                                      s \div BASE)

BigAdd(a, b) == AddCarry(a, b, 0)

RECURSIVE SubBorrow(_, _, _)
SubBorrow(a, b, c) ==
    IF a = <<>> THEN <<>>
    ELSE LET y == IF b = <<>> THEN 0 ELSE Head(b)
             d == Head(a) - y - c
         IN  <<(d + BASE) % BASE>>
                 \o SubBorrow(Tail(a), IF b = <<>> THEN <<>> ELSE Tail(b),
                              IF d < 0 THEN 1 ELSE 0)

\* a - b for a >= b
BigSub(a, b) == Trim(SubBorrow(a, b, 0))

RECURSIVE BigCmpFrom(_, _, _)
BigCmpFrom(a, b, i) ==
    IF i = 0 THEN 0
    ELSE IF a[i] # b[i] THEN (IF a[i] < b[i] THEN -1 ELSE 1)
    ELSE BigCmpFrom(a, b, i - 1)

\* -1, 0 or 1 as a < b, a = b, a > b
BigCmp(a, b) ==
    IF Len(a) # Len(b) THEN (IF Len(a) < Len(b) THEN -1 ELSE 1)
    ELSE BigCmpFrom(a, b, Len(a))

RECURSIVE MulSmallCarry(_, _, _)
MulSmallCarry(a, k, c) ==
    IF a = <<>> THEN (IF c = 0 THEN <<>> ELSE <<c>>)
    ELSE LET p == Head(a) * k + c
         IN  <<p % BASE>> \o MulSmallCarry(Tail(a), k, p \div BASE)

\* a * k for a limb k
BigMulSmall(a, k) == Trim(MulSmallCarry(a, k, 0))

RECURSIVE BigMul(_, _)
BigMul(a, b) ==
    IF a = <<>> \/ b = <<>> THEN <<>>
    ELSE LET rest == BigMul(a, Tail(b))
         IN  BigAdd(BigMulSmall(a, Head(b)),
                    IF rest = <<>> THEN <<>> ELSE <<0>> \o rest)

RECURSIVE DivSmallFrom(_, _, _, _)
DivSmallFrom(a, k, i, r) ==
    IF i = 0 THEN <<>>
    ELSE LET n == r * BASE + a[i]
         IN  DivSmallFrom(a, k, i - 1, n % k) \o <<n \div k>>

\* a \div k for a limb k
BigDivSmall(a, k) == Trim(DivSmallFrom(a, k, Len(a), 0))

BitLen(a) ==
    IF a = <<>> THEN 0
    ELSE LIMB_BITS * (Len(a) - 1)
            + (CHOOSE k \in 1..LIMB_BITS :
                   2^(k - 1) <= a[Len(a)] /\ a[Len(a)] < 2^k)

\* a * 2^q
Shl(a, q) ==
    IF a = <<>> THEN <<>>
    ELSE [i \in 1..(q \div LIMB_BITS) |-> 0]
            \o BigMulSmall(a, 2^(q % LIMB_BITS))

\* a \div 2^q
Shr(a, q) ==
    IF q \div LIMB_BITS >= Len(a) THEN <<>>
    ELSE BigDivSmall(SubSeq(a, (q \div LIMB_BITS) + 1, Len(a)),
                     2^(q % LIMB_BITS))

IsOdd(a) == a # <<>> /\ a[1] % 2 = 1

\* a / 2^q rounded to the nearest integer, ties to even (q >= 1)
RoundShr(a, q) ==
    LET f    == Shr(a, q)
        r    == BigSub(a, Shl(f, q))
        half == BigCmp(r, Shl(<<1>>, q - 1))
    IN  IF half > 0 \/ (half = 0 /\ IsOdd(f)) THEN BigAdd(f, <<1>>) ELSE f

FZero == [neg |-> FALSE, m |-> <<>>, e |-> 0]

RECURSIVE StripZeros(_, _, _)
StripZeros(neg, m, e) ==
    IF m = <<>> THEN FZero
    ELSE IF m[1] = 0 THEN StripZeros(neg, Tail(m), e + LIMB_BITS)
    ELSE LET t == CHOOSE k \in 0..(LIMB_BITS - 1) :
                      m[1] % 2^(k + 1) = 2^k
         IN  [neg |-> neg, m |-> BigDivSmall(m, 2^t), e |-> e + t]

\* the float nearest to (-1)^neg * m * 2^e
RoundFloat(neg, m, e) ==
    IF BitLen(m) <= MANT_BITS THEN StripZeros(neg, m, e)
    ELSE StripZeros(neg, RoundShr(m, BitLen(m) - MANT_BITS),
                    e + BitLen(m) - MANT_BITS)

RECURSIVE IntLimbs(_)
IntLimbs(n) == IF n = 0 THEN <<>> ELSE <<n % BASE>> \o IntLimbs(n \div BASE)

\* float(n) of an int
FromInt(n) == StripZeros(n < 0, IntLimbs(Abs(n)), 0)

FSign(x) == IF x.m = <<>> THEN 0 ELSE IF x.neg THEN -1 ELSE 1

FNeg(x) == IF x.m = <<>> THEN FZero ELSE [x EXCEPT !.neg = ~x.neg]

FMul(x, y) == RoundFloat(x.neg # y.neg, BigMul(x.m, y.m), x.e + y.e)

FAdd(x, y) ==
    LET e  == IF x.e < y.e THEN x.e ELSE y.e
        mx == Shl(x.m, x.e - e)
        my == Shl(y.m, y.e - e)
    IN  IF x.neg = y.neg THEN RoundFloat(x.neg, BigAdd(mx, my), e)
        ELSE IF BigCmp(mx, my) >= 0 THEN RoundFloat(x.neg, BigSub(mx, my), e)
        ELSE RoundFloat(y.neg, BigSub(my, mx), e)

FSub(x, y) == FAdd(x, FNeg(y))

FAbs(x) == [x EXCEPT !.neg = FALSE]

\* x < y
FLess(x, y) == FSign(FSub(x, y)) < 0

\* the limb d with d * b <= r < (d + 1) * b, found bit by bit, and r - d * b
RECURSIVE QuotientLimb(_, _, _, _)
QuotientLimb(d, r, b, t) ==
    IF t < 0 THEN [d |-> d, r |-> r]
    ELSE IF BigCmp(r, BigMulSmall(b, 2^t)) >= 0
         THEN QuotientLimb(d + 2^t, BigSub(r, BigMulSmall(b, 2^t)), b, t - 1)
         ELSE QuotientLimb(d, r, b, t - 1)

\* long division of r by b, limb by limb from limb j down
RECURSIVE DivModFrom(_, _, _)
DivModFrom(r, b, j) ==
    IF j < 0 THEN [q |-> <<>>, r |-> r]
    ELSE LET top  == QuotientLimb(0, r, Shl(b, LIMB_BITS * j), LIMB_BITS - 1)
             rest == DivModFrom(top.r, b, j - 1)
         IN  [q |-> rest.q \o <<top.d>>, r |-> rest.r]

\* quotient and remainder of a by b # 0
BigDivMod(a, b) ==
    LET qr == DivModFrom(a, b, Len(a)) IN [q |-> Trim(qr.q), r |-> qr.r]

\* x / y for y # 0: the quotient carried to two bits beyond the mantissa, a
\* last bit telling whether anything is left over, then rounded
FDiv(x, y) ==
    LET k  == MANT_BITS + 2 + BitLen(y.m)
        qr == BigDivMod(Shl(x.m, k), y.m)
        q  == BigAdd(Shl(qr.q, 1), IF qr.r = <<>> THEN <<>> ELSE <<1>>)
    IN  RoundFloat(x.neg # y.neg, q, x.e - y.e - k - 1)

\* the integer nearest to x, ties to even, as a float (rint)
Rint(x) ==
    IF x.e >= 0 THEN x ELSE StripZeros(x.neg, RoundShr(x.m, -x.e), 0)

\* round(x, 2) of a Python float: the exact value of x rounded to cents,
\* ties to even, and the float nearest to that decimal
PyRound2(x) ==
    LET cents == IF x.e >= 0 THEN Shl(BigMulSmall(x.m, 100), x.e)
                 ELSE RoundShr(BigMulSmall(x.m, 100), -x.e)
    IN  FDiv(RoundFloat(x.neg, cents, 0), FromInt(100))

\* round(x, 2) of a numpy float64: rint(x * 100) / 100
NpRound2(x) == FDiv(Rint(FMul(x, FromInt(100))), FromInt(100))

----------------------------------------------------------------------------
(* Gamma exposure per strike (gex_calculator.py, barchart_gex.py) *)

MAX_EXPIRATIONS == 12

OPTION_MULTIPLIER == 100

\* the literal 0.01
ONE_PERCENT == [neg |-> FALSE, m |-> <<5243, 3932, 27525, 163>>, e |-> -59]

\* One parsed contract.  strike in mills, oi and volume ints, gamma a float;
\* expiration a day number; bs is the value the Black-Scholes expression of
\* bs_gamma has for the contract at a positive spot, a positive float.
Contract(strike, type, oi, gamma, bs, expiration, volume) ==
    [strike |-> strike, type |-> type, oi |-> oi, gamma |-> gamma, bs |-> bs,
     expiration |-> expiration, volume |-> volume]

RECURSIVE SortedSeq(_)
SortedSeq(S) ==
    IF S = {} THEN <<>>
    ELSE LET least == CHOOSE x \in S : \A y \in S : x <= y
         IN  <<least>> \o SortedSeq(S \ {least})

\* bs_gamma: 0.0 if T <= 0 or sigma <= 0 or S <= 0; parse_options passes
\* T >= 1/365 and iv > 0 only
BsGamma(S, row) == IF FSign(S) <= 0 THEN FZero ELSE row.bs

CalcGamma(spot, row) ==
    IF FSign(row.gamma) > 0 THEN row.gamma ELSE BsGamma(spot, row)

\* gamma * oi * 100 * spot * spot * 0.01, evaluated left to right
Gex(gamma, oi, spot) ==
    FMul(FMul(FMul(FMul(FMul(gamma, FromInt(oi)),
                        FromInt(OPTION_MULTIPLIER)), spot), spot),
         ONE_PERCENT)

DealerGex_Unsigned(type, gex) == gex

DealerGex(type, gex) == IF type = "call" THEN gex ELSE FNeg(gex)

\* Series.sum() of one group: the values added one after the other
RECURSIVE SeqSum(_, _)
SeqSum(acc, xs) ==
    IF xs = <<>> THEN acc ELSE SeqSum(FAdd(acc, Head(xs)), Tail(xs))

\* the grouped 'sum' of pandas from version 1.2 on: Kahan summation
RECURSIVE KahanSum(_, _, _)
KahanSum(sumx, compensation, xs) ==
    IF xs = <<>> THEN sumx
    ELSE LET y == FSub(Head(xs), compensation)
             t == FAdd(sumx, y)
         IN  KahanSum(t, FSub(FSub(t, sumx), y), Tail(xs))

GroupSum(xs, kahan) ==
    IF kahan THEN KahanSum(FZero, FZero, xs) ELSE SeqSum(FZero, xs)

RECURSIVE SumInt(_)
SumInt(xs) == IF xs = <<>> THEN 0 ELSE Head(xs) + SumInt(Tail(xs))

DealerGexOf(spot, rows) ==
    [i \in 1..Len(rows) |->
        DealerGex(rows[i].type, Gex(CalcGamma(spot, rows[i]), rows[i].oi, spot))]

\* one row of gex_by_strike
StrikeAggregate(spot, df, strike, kahan) ==
    LET AtStrike(r) == r.strike = strike
        IsCall(r)   == r.type = "call"
        IsPut(r)    == r.type = "put"
        group       == SelectSeq(df, AtStrike)
    IN  [strike       |-> strike,
         call_gex     |-> SeqSum(FZero, DealerGexOf(spot, SelectSeq(group, IsCall))),
         put_gex      |-> SeqSum(FZero, DealerGexOf(spot, SelectSeq(group, IsPut))),
         net_gex      |-> GroupSum(DealerGexOf(spot, group), kahan),
         total_oi     |-> SumInt([i \in 1..Len(group) |-> group[i].oi]),
         total_volume |-> SumInt([i \in 1..Len(group) |-> group[i].volume])]

\* calculate_gex(spot, df); kahan tells which summation the installed pandas
\* uses for the grouped 'sum'
CalculateGexRun(spot, df, kahan) ==
    IF df = <<>> THEN <<>>
    ELSE LET exp_dates == Take(SortedSeq({df[i].expiration : i \in 1..Len(df)}),
                               MAX_EXPIRATIONS)
             Kept(r)   == r.expiration \in Range(exp_dates)
             kept      == SelectSeq(df, Kept)
             strikes   == SortedSeq({kept[i].strike : i \in 1..Len(kept)})
         IN  [i \in 1..Len(strikes) |->
                StrikeAggregate(spot, kept, strikes[i], kahan)]

\* strikes_data[strike] after one more contract of the loop
AddToStrike(strikes_data, strike, type, dealer_gex) ==
    LET known == \E i \in 1..Len(strikes_data) : strikes_data[i].strike = strike
        rows  == IF known THEN strikes_data
                 ELSE Append(strikes_data,
                             [strike |-> strike, call_gex |-> FZero,
                              put_gex |-> FZero, net_gex |-> FZero])
    IN  [i \in 1..Len(rows) |->
            IF rows[i].strike # strike THEN rows[i]
            ELSE [rows[i] EXCEPT
                    !.call_gex = IF type = "call" THEN FAdd(@, dealer_gex) ELSE @,
                    !.put_gex  = IF type = "call" THEN @ ELSE FAdd(@, dealer_gex),
                    !.net_gex  = FAdd(@, dealer_gex)]]

\* the loop of _calculate_gex_from_barchart over raw_data; every record
\* carries the quote's baseLastPrice
RECURSIVE BarchartLoop(_, _, _)
BarchartLoop(st, raw_data, base_price) ==
    IF raw_data = <<>> THEN st
    ELSE LET raw  == Head(raw_data)
             spot == IF FSign(base_price) > 0 THEN base_price ELSE st.spot
             skip == raw.strike <= 0 \/ FSign(raw.gamma) <= 0 \/ raw.oi <= 0
             gex  == Gex(raw.gamma, raw.oi, spot)
         IN  BarchartLoop(
                 [spot |-> spot,
                  strikes_data |->
                      IF skip THEN st.strikes_data
                      ELSE AddToStrike(st.strikes_data, raw.strike, raw.type,
                                       DealerGex(raw.type, gex))],
                 Tail(raw_data), base_price)

\* strikes_data of _calculate_gex_from_barchart, in the order of first use
CalculateGexFromBarchartRun(raw_data, base_price) ==
    BarchartLoop([spot |-> FZero, strikes_data |-> <<>>], raw_data,
                 base_price).strikes_data

----------------------------------------------------------------------------
(* Key levels of the exposure frame (find_key_levels, and the second half  *)
(* of _calculate_gex_from_barchart)                                        *)

\* int(digits) / 1000.0 of parse_option_symbol
StrikeFloat(strike) == FDiv(FromInt(strike), FromInt(1000))

\* idxmax(): the first index whose key no other key exceeds
IdxMax(keys) ==
    Bind(keys, LAMBDA ks :
        CHOOSE i \in 1..Len(ks) :
            /\ \A j \in 1..Len(ks) : ~FLess(ks[i], ks[j])
            /\ \A j \in 1..(i - 1) : FLess(ks[j], ks[i]))

\* net_vals[i] * net_vals[i + 1] < 0
SignChange(rows, i) == FSign(FMul(rows[i].net_gex, rows[i + 1].net_gex)) < 0

\* fp of the pair (i, i + 1)
Crossing(rows, i) ==
    LET v1 == FAbs(rows[i].net_gex)
        v2 == FAbs(rows[i + 1].net_gex)
    IN  Bind(FAdd(v1, v2), LAMBDA sum :
        Bind(FDiv(v1, sum), LAMBDA ratio :
        Bind(StrikeFloat(rows[i].strike), LAMBDA s1 :
        Bind(StrikeFloat(rows[i + 1].strike), LAMBDA s2 :
        Bind(FSub(s2, s1), LAMBDA width :
        Bind(FMul(ratio, width), LAMBDA step : FAdd(s1, step)))))))

NoFlip == [found |-> FALSE, fp |-> FZero, dist |-> FZero]

FlipStep_Last(st, rows, i, spot) ==
    IF ~SignChange(rows, i) THEN st
    ELSE Bind(Crossing(rows, i), LAMBDA fp :
         Bind(FAbs(FSub(fp, spot)), LAMBDA dist :
             IF ~st.found \/ ~FLess(st.dist, dist)
             THEN [found |-> TRUE, fp |-> fp, dist |-> dist]
             ELSE st))

\* one pass of the loop: min_dist starts at inf, a crossing replaces the
\* kept one only when strictly closer to spot
FlipStep(st, rows, i, spot) ==
    IF ~SignChange(rows, i) THEN st
    ELSE Bind(Crossing(rows, i), LAMBDA fp :
         Bind(FAbs(FSub(fp, spot)), LAMBDA dist :
             IF ~st.found \/ FLess(dist, st.dist)
             THEN [found |-> TRUE, fp |-> fp, dist |-> dist]
             ELSE st))

RECURSIVE FlipLoop(_, _, _, _)
FlipLoop(st, rows, i, spot) ==
    IF i >= Len(rows) THEN st
    ELSE Bind(FlipStep(st, rows, i, spot), LAMBDA s : FlipLoop(s, rows, i + 1, spot))

GammaFlip_Default(rows, spot) ==
    Bind(SortByStrike(rows), LAMBDA sorted :
    Bind(FlipLoop(NoFlip, sorted, 1, spot), LAMBDA st :
        IF st.found THEN st ELSE [found |-> TRUE, fp |-> FZero, dist |-> FZero]))

\* gamma_flip after the loop over the strikes in ascending order
GammaFlip(rows, spot) ==
    Bind(SortByStrike(rows), LAMBDA sorted : FlipLoop(NoFlip, sorted, 1, spot))

Regime(spot, gamma_flip) == IF FLess(gamma_flip, spot) THEN "Positiv" ELSE "Negativ"

PutIf(dict, cond, key, value) ==
    Bind(dict, LAMBDA d : IF cond THEN DictPut(d, key, value) ELSE d)

\* find_key_levels(spot, gex_df); np_round tells whether round() of a numpy
\* float goes through numpy's rounding or Python's
FindKeyLevelsRun(spot, gex_df, np_round) ==
    IF gex_df = <<>> THEN EmptyDict
    ELSE Bind(GammaFlip(gex_df, spot), LAMBDA flip :
    LET IsCallData(r) == FSign(r.call_gex) > 0
        IsPutData(r)  == FSign(r.put_gex) < 0
        call_data == SelectSeq(gex_df, IsCallData)
        put_data  == SelectSeq(gex_df, IsPutData)
        volumes   == [i \in 1..Len(gex_df) |-> gex_df[i].total_volume]
        abs_gex   == [i \in 1..Len(gex_df) |->
                        FAdd(FAbs(gex_df[i].call_gex), FAbs(gex_df[i].put_gex))]
        l1 == PutIf(EmptyDict, call_data # <<>>, "call_wall",
                    StrikeFloat(call_data[IdxMax(
                        [i \in 1..Len(call_data) |-> call_data[i].call_gex])].strike))
        l2 == PutIf(l1, put_data # <<>>, "put_wall",
                    StrikeFloat(put_data[IdxMax(
                        [i \in 1..Len(put_data) |-> FNeg(put_data[i].put_gex)])].strike))
        l3 == PutIf(l2, flip.found, "gamma_flip",
                    IF np_round THEN NpRound2(flip.fp) ELSE PyRound2(flip.fp))
        l4 == PutIf(l3, flip.found, "gamma_regime", Regime(spot, flip.fp))
        l5 == PutIf(l4, SumInt(volumes) > 0, "hvl",
                    StrikeFloat(gex_df[IdxMax(
                        [i \in 1..Len(gex_df) |-> FromInt(volumes[i])])].strike))
    IN  DictPut(l5, "abs_gamma_strike", StrikeFloat(gex_df[IdxMax(abs_gex)].strike)))

\* return None
NoLevels == [none |-> TRUE]

\* _calculate_gex_from_barchart after its loop over raw_data
BarchartLevelsRun(strikes_data, spot) ==
    IF strikes_data = <<>> \/ FSign(spot) <= 0 THEN NoLevels
    ELSE Bind(GammaFlip(strikes_data, spot), LAMBDA flip :
    LET sorted    == SortByStrike(strikes_data)
        IsCall(r) == FSign(r.call_gex) > 0
        IsPut(r)  == FSign(r.put_gex) < 0
        calls     == SelectSeq(sorted, IsCall)
        puts      == SelectSeq(sorted, IsPut)
        l0 == DictPut(DictPut(EmptyDict, "spot", spot), "source", "barchart-api")
        l1 == PutIf(l0, flip.found, "gamma_flip", PyRound2(flip.fp))
        l2 == PutIf(l1, flip.found, "gamma_regime", Regime(spot, flip.fp))
        l3 == PutIf(l2, calls # <<>>, "call_wall",
                    StrikeFloat(calls[IdxMax(
                        [i \in 1..Len(calls) |-> calls[i].call_gex])].strike))
    IN  PutIf(l3, puts # <<>>, "put_wall",
              StrikeFloat(puts[IdxMax(
                  [i \in 1..Len(puts) |-> FNeg(puts[i].put_gex)])].strike)))

----------------------------------------------------------------------------
(* One report cycle of the exposure engine *)

MaxChain == 3                    \* contracts of one fetched chain

Float_0_0274 == [neg |-> FALSE, m |-> <<8179, 24484, 7549, 112>>, e |-> -57]

Float_0_013 == [neg |-> FALSE, m |-> <<13369, 28049, 32505, 212>>, e |-> -59]

K1 == Contract(600000, "call", 1000, ONE_PERCENT, Float_0_013, 30, 150)
K2 == Contract(600000, "put", 800, ONE_PERCENT, Float_0_013, 30, 90)
K3 == Contract(600000, "call", 300, Float_0_0274, Float_0_013, 60, 20)
K4 == Contract(610000, "put", 500, FZero, Float_0_013, 30, 0)

Contracts == {K1, K2, K3, K4}

\* the quote's price: 605.0, or 0 for a feed without one
GexSpots == {FZero, FromInt(605)}

\* fetch_cboe_options or _fetch_via_api returned: a quote and no record yet
FetchChain(source, spot) ==
    /\ last' = [Idle EXCEPT !.op = "fetch", !.caller = source, !.price = spot]
    /\ UNCHANGED <<memFile, today, ncalls, nsteps, dpFeed, clock, nfill, thr, accVars>>

\* one more record of the chain; parse_options divides by spot and skips the
\* record when that raises, so a CBOE chain at spot 0 stays empty
ReceiveContract(c) ==
    /\ last.op = "fetch"
    /\ Len(last.zones) < MaxChain
    /\ last.caller = "cboe" => FSign(last.price) > 0
    /\ last' = [last EXCEPT !.zones = Append(@, c)]
    /\ UNCHANGED <<memFile, today, ncalls, nsteps, dpFeed, clock, nfill, thr, accVars>>

CalculateGex(kahan) ==
    /\ last.op = "fetch"
    /\ last.caller = "cboe"
    /\ last' = [last EXCEPT !.op = "calculate_gex",
                            !.out = CalculateGexRun(last.price, last.zones, kahan)]
    /\ UNCHANGED <<memFile, today, ncalls, nsteps, dpFeed, clock, nfill, thr, accVars>>

CalculateGexFromBarchart ==
    /\ last.op = "fetch"
    /\ last.caller = "barchart"
    /\ last.zones # <<>>
    /\ last' = [last EXCEPT
                    !.op  = "_calculate_gex_from_barchart",
                    !.out = CalculateGexFromBarchartRun(last.zones, last.price),
                    !.run = Bind(BarchartLoop([spot |-> FZero, strikes_data |-> <<>>],
                                              last.zones, last.price),
                                 LAMBDA st : BarchartLevelsRun(st.strikes_data, st.spot))]
    /\ UNCHANGED <<memFile, today, ncalls, nsteps, dpFeed, clock, nfill, thr, accVars>>

GexNext ==
    \/ \E source \in {"cboe", "barchart"}, spot \in GexSpots : FetchChain(source, spot)
    \/ \E c \in Contracts : ReceiveContract(c)
    \/ \E kahan \in BOOLEAN : CalculateGex(kahan)
    \/ CalculateGexFromBarchart

GexSpec == Init /\ [][GexNext]_vars

----------------------------------------------------------------------------
(* Key levels over small exposure frames *)

MaxStrikes == 3                  \* rows of one frame

\* call_gex, put_gex (in whole units) and total_volume of a row
Exposures == {<<0, 0, 0>>, <<1, 0, 10>>, <<1, -2, 0>>, <<0, -2, 20>>}

\* 610.0, 614.0, 606.67
KeySpots == {FromInt(610), FromInt(614), FDiv(FromInt(60667), FromInt(100))}

\* the row of the next strike: 600, 610, 620, ...
FrameRow(n, x) ==
    [strike |-> 600000 + 10000 * n,
     call_gex |-> FromInt(x[1]), put_gex |-> FromInt(x[2]),
     net_gex |-> FAdd(FromInt(x[1]), FromInt(x[2])),
     total_oi |-> 100, total_volume |-> x[3]]

\* calculate_gex returned for a quote: the frame, row by row
StartFrame(spot) ==
    /\ last' = [Idle EXCEPT !.op = "frame", !.price = spot]
    /\ UNCHANGED <<memFile, today, ncalls, nsteps, dpFeed, clock, nfill, thr, accVars>>

AddRow(x) ==
    /\ last.op = "frame"
    /\ Len(last.zones) < MaxStrikes
    /\ last' = [last EXCEPT !.zones = Append(@, FrameRow(Len(@), x))]
    /\ UNCHANGED <<memFile, today, ncalls, nsteps, dpFeed, clock, nfill, thr, accVars>>

FindKeyLevels(np_round) ==
    /\ last.op = "frame"
    /\ last' = [last EXCEPT !.op = "find_key_levels",
                            !.out = FindKeyLevelsRun(last.price, last.zones, np_round)]
    /\ UNCHANGED <<memFile, today, ncalls, nsteps, dpFeed, clock, nfill, thr, accVars>>

BarchartLevels ==
    /\ last.op = "frame"
    /\ last' = [last EXCEPT !.op = "barchart_levels",
                            !.out = BarchartLevelsRun(last.zones, last.price)]
    /\ UNCHANGED <<memFile, today, ncalls, nsteps, dpFeed, clock, nfill, thr, accVars>>

KeyNext ==
    \/ \E spot \in KeySpots : StartFrame(spot)
    \/ \E x \in Exposures : AddRow(x)
    \/ \E np_round \in BOOLEAN : FindKeyLevels(np_round)
    \/ BarchartLevels

KeySpec == Init /\ [][KeyNext]_vars

----------------------------------------------------------------------------
(* The options chain normalizer (parse_options) *)

STRIKE_RANGE_PCT == FDiv(FromInt(1), FromInt(5))        \* 0.20

DEFAULT_IV == FDiv(FromInt(1), FromInt(5))              \* iv = 0.20

\* One raw record of the feed.  option is the symbol as parse_option_symbol
\* reads it: [expiration, type, strike], strike being its 8 digits, with
\* parsed = "ok"; parsed is "missing" for no symbol and "unparseable" when
\* parse_option_symbol returns None.
\* text names a field that holds a non-numeric string: "", "iv" or
\* "open_interest".
RawOption(option, iv, bid, ask, open_interest, text) ==
    [option |-> option, iv |-> iv, bid |-> bid, ask |-> ask,
     open_interest |-> open_interest, volume |-> 0, gamma |-> FZero, text |-> text]

Symbol(expiration, type, strike) ==
    [parsed |-> "ok", expiration |-> expiration, type |-> type, strike |-> strike]

NoSymbol(parsed) == [parsed |-> parsed, expiration |-> 0, type |-> "", strike |-> 0]

NoneSkipped ==
    [no_symbol |-> 0, no_strike |-> 0, out_of_range |-> 0, expired |-> 0, no_iv |-> 0]

Skip(st, reason) == [st EXCEPT !.skipped[reason] = @ + 1]

\* the body of the loop for one record; intraday: now is past midnight, so
\* the days of exp_date - now are one less than the calendar difference.
\* The bare except skips the record on any exception and counts nothing.
ParseOption(st, opt, spot, now, intraday) ==
    LET dte == opt.option.expiration - now - (IF intraday THEN 1 ELSE 0)
        strike == StrikeFloat(opt.option.strike)
    IN
    IF opt.option.parsed = "missing" THEN Skip(st, "no_symbol")
    ELSE IF opt.option.parsed = "unparseable" THEN Skip(st, "no_symbol")
    ELSE IF opt.option.strike <= 0 THEN Skip(st, "no_strike")
    ELSE IF FSign(spot) = 0 THEN st                  \* ZeroDivisionError
    ELSE IF FLess(STRIKE_RANGE_PCT, FDiv(FAbs(FSub(strike, spot)), spot))
         THEN Skip(st, "out_of_range")
    ELSE IF dte < 0 THEN Skip(st, "expired")
    ELSE IF opt.text = "iv" THEN st                  \* TypeError in iv <= 0
    ELSE IF FSign(opt.iv) <= 0 /\ FSign(opt.bid) <= 0 /\ FSign(opt.ask) <= 0
         THEN Skip(st, "no_iv")
    ELSE IF opt.text = "open_interest" THEN st       \* ValueError in int(oi)
    ELSE [st EXCEPT !.records = Append(@,
            [strike |-> opt.option.strike, type |-> opt.option.type,
             expiration |-> opt.option.expiration, dte |-> dte,
             T |-> Max(dte, 1), oi |-> opt.open_interest, volume |-> opt.volume,
             iv |-> IF FSign(opt.iv) <= 0 THEN DEFAULT_IV ELSE opt.iv,
             gamma |-> opt.gamma, bid |-> opt.bid, ask |-> opt.ask])]

RECURSIVE ParseLoop(_, _, _, _, _)
ParseLoop(st, options, spot, now, intraday) ==
    IF options = <<>> THEN st
    ELSE ParseLoop(ParseOption(st, Head(options), spot, now, intraday),
                   Tail(options), spot, now, intraday)

\* parse_options(spot, options): the records of df and the skipped counters
ParseOptionsRun(spot, options, now, intraday) ==
    ParseLoop([records |-> <<>>, skipped |-> NoneSkipped], options, spot, now, intraday)

----------------------------------------------------------------------------
(* One fetched chain through the normalizer *)

MaxOptions == 2                  \* raw records of one fetched chain

Quarter == FDiv(FromInt(1), FromInt(4))

RawOptions ==
    {RawOption(Symbol(30, "call", 600000), Quarter, FZero, FZero, 1000, ""),
     RawOption(NoSymbol("missing"), Quarter, FZero, FZero, 10, ""),
     RawOption(NoSymbol("unparseable"), Quarter, FZero, FZero, 10, ""),
     RawOption(Symbol(30, "put", 0), Quarter, FZero, FZero, 10, ""),
     RawOption(Symbol(30, "call", 800000), Quarter, FZero, FZero, 10, ""),
     RawOption(Symbol(0, "put", 610000), Quarter, FZero, FZero, 10, ""),
     RawOption(Symbol(30, "put", 590000), FZero, FZero, FZero, 10, ""),
     RawOption(Symbol(30, "put", 484000), FZero, Quarter, FZero, 10, ""),
     RawOption(Symbol(30, "call", 610000), FZero, FZero, FZero, 10, "iv"),
     RawOption(Symbol(30, "call", 620000), Quarter, FZero, FZero, 0, "open_interest")}

\* current_price of the quote: 605.0, or 0
ParseSpots == {FromInt(605), FZero}

\* fetch_cboe_options returned the quote; its options arrive one by one
FetchOptions(spot) ==
    /\ last' = [Idle EXCEPT !.op = "fetch_cboe_options", !.price = spot]
    /\ UNCHANGED <<memFile, today, ncalls, nsteps, dpFeed, clock, nfill, thr, accVars>>

ReceiveOption(opt) ==
    /\ last.op = "fetch_cboe_options"
    /\ Len(last.zones) < MaxOptions
    /\ last' = [last EXCEPT !.zones = Append(@, opt)]
    /\ UNCHANGED <<memFile, today, ncalls, nsteps, dpFeed, clock, nfill, thr, accVars>>

ParseOptions(intraday) ==
    /\ last.op = "fetch_cboe_options"
    /\ last' = [last EXCEPT !.op = "parse_options", !.now = today,
                            !.out = ParseOptionsRun(last.price, last.zones, today, intraday)]
    /\ UNCHANGED <<memFile, today, ncalls, nsteps, dpFeed, clock, nfill, thr, accVars>>

ParseNext ==
    \/ \E spot \in ParseSpots : FetchOptions(spot)
    \/ \E opt \in RawOptions : ReceiveOption(opt)
    \/ \E intraday \in BOOLEAN : ParseOptions(intraday)

ParseSpec == Init /\ [][ParseNext]_vars

----------------------------------------------------------------------------
(* The store under its writer and its three readers *)

DISPLAY_LEVELS == 12             \* active[:12]
TOP_N == 4                       \* get_top_zones(ticker, n=4, ...)

MemTickers == {"QQQ", "gld", "SPY"}

MemScans == {<<>>, <<Z1>>, <<Z3, Z5>>}

\* a call that only reads the store
ReadMemory(op, ticker, cur, out) ==
    /\ ncalls < MaxCalls
    /\ last' = [Idle EXCEPT !.op = op, !.caller = op, !.ticker = Upper(ticker),
                            !.price = cur, !.now = today,
                            !.unreadable = memFile.kind # "ok", !.out = out]
    /\ ncalls' = ncalls + 1
    /\ UNCHANGED <<memFile, today, nsteps, dpFeed, clock, nfill, thr, accVars>>

GetActiveLevelsCall(ticker, cur) ==
    ReadMemory("get_active_levels", ticker, cur,
               GetActiveLevels(LoadMemory(memFile), ticker, cur))

GetTopZonesCall(ticker, cur) ==
    ReadMemory("get_top_zones", ticker, cur,
               GetTopZones(LoadMemory(memFile), ticker, TOP_N, cur))

\* format_memory_discord(ticker, current_price): the levels it lists
FormatMemoryDiscord(ticker, cur) ==
    LET active == GetActiveLevels(LoadMemory(memFile), ticker, cur) IN
    ReadMemory("format_memory_discord", ticker, cur,
               SubSeq(active, 1, IF Len(active) < DISPLAY_LEVELS
                                 THEN Len(active) ELSE DISPLAY_LEVELS))

MemNext ==
    \/ \E t \in MemTickers, z \in MemScans, p \in Spots : UpdateLevels(t, z, p)
    \/ \E t \in MemTickers, p \in Spots : GetActiveLevelsCall(t, p)
    \/ \E t \in MemTickers, p \in Spots : GetTopZonesCall(t, p)
    \/ \E t \in MemTickers, p \in Spots : FormatMemoryDiscord(t, p)
    \/ \E k \in {"corrupt", "denied"} : DamageMemory(k)
    \/ \E d \in {1, MAX_AGE_DAYS} : NextDay(d)

MemSpec == Init /\ [][MemNext]_vars

----------------------------------------------------------------------------
(* The !darkpool command step by step: retrieval, memory update, push *)

\* the functions darkpool.py defines
DarkpoolNames ==
    {"_discover_symbol_id", "fetch_chartexchange_api", "_extract_number",
     "fetch_chartexchange_prints", "fetch_finra_volume", "derive_dp_levels_from_options",
     "_cluster_dp_levels", "enrich_levels_with_direction", "get_buy_sell_from_levels",
     "get_dark_pool_levels", "format_dp_discord"}

\* the four zones of highest volume, by price, as push_dp_to_github orders
\* the levels of a scan
FeedRow(levels) ==
    LET top == SortByVolumeDesc(levels)
        top4 == SortByStrike(SubSeq(top, 1, IF Len(top) < 4 THEN Len(top) ELSE 4))
    IN [i \in 1..Len(top4) |-> top4[i].strike]

\* cmd_darkpool: run_gex and get_dark_pool_levels have returned dp and spot;
\* memory keeps the feed as it was at that moment
CmdDarkpool(ticker, dp_levels, spot) ==
    /\ ncalls < MaxCalls
    /\ thr["command"].pc \in {"idle", "done"}
    /\ thr' = [thr EXCEPT !["command"] =
                  [pc |-> "retrieved", ticker |-> DpTicker(ticker), zones |-> dp_levels,
                   price |-> spot, memory |-> dpFeed[DpTicker(ticker)]]]
    /\ ncalls' = ncalls + 1
    /\ UNCHANGED <<memFile, today, nsteps, last, dpFeed, clock, nfill, accVars>>

\* _push_dp_to_tradingview, first half: "if dp.get('levels')" and the
\* memory update
DpMemoryUpdate ==
    LET c == thr["command"] IN
    /\ c.pc = "retrieved"
    /\ IF c.zones # <<>>
       THEN /\ UpdateLevelsFrom("_push_dp_to_tradingview", c.ticker, c.zones, c.price)
            /\ thr' = [thr EXCEPT !["command"].pc = "updated"]
       ELSE /\ thr' = [thr EXCEPT !["command"].pc = "done"]
            /\ UNCHANGED <<memFile, last>>
    /\ UNCHANGED <<today, ncalls, nsteps, dpFeed, clock, nfill, accVars>>

\* second half: "from darkpool import get_top_dp_zones", the zones and the
\* push; an ImportError is caught by "except Exception" and logged
DpPush ==
    LET c == thr["command"] IN
    /\ c.pc = "updated"
    /\ IF "get_top_dp_zones" \in DarkpoolNames /\ c.zones[1].strike > 0
       THEN dpFeed' = [dpFeed EXCEPT ![c.ticker] = Append(@, FeedRow(c.zones))]
       ELSE UNCHANGED dpFeed
    /\ thr' = [thr EXCEPT !["command"].pc = "done"]
    /\ UNCHANGED <<memFile, today, ncalls, nsteps, last, nfill, accVars, clock>>

PushNext ==
    \/ \E t \in BotTickers, z \in BotScans, p \in Spots : CmdDarkpool(t, z, p)
    \/ DpMemoryUpdate
    \/ DpPush

\* the event loop runs a started handler to its end
PushSpec ==
    Init /\ [][PushNext]_vars /\ WF_vars(DpMemoryUpdate) /\ WF_vars(DpPush)

----------------------------------------------------------------------------
(* The scheduled report: a loop of 30 minutes that on_ready starts *)

SCHEDULE_HOURS == {14, 17, 20}
LOOP_MINUTES == 30
MINUTE_WINDOW == 5               \* now.minute > 5: return
DAY_MINUTES == 1440

\* now.weekday(): 0 is Monday; the days of this section are counted from a
\* Monday
Weekday(day) == day % 7

Hour(minute) == minute \div 60

\* the guards of scheduled_gex above the report
ReportDue(day, minute, channel) ==
    /\ Weekday(day) < 5
    /\ Hour(minute) \in SCHEDULE_HOURS /\ minute % 60 <= MINUTE_WINDOW
    /\ channel

\* the moments on_ready can come: each minute of the first half hour of a
\* Monday or a Saturday, and three moments inside the hour of 14
StartTimes ==
    {<<d, m>> : d \in {0, 5}, m \in {0, 3, 5, 6, 10, 29}}
        \cup {<<0, 14 * 60 + 3>>, <<0, 14 * 60 + 10>>, <<0, 14 * 60 + 35>>}

\* what the loop has done in the hour of its last iteration; first: the
\* loop was started in that hour
NoHour ==
    [day |-> 0, hour |-> 0, first |-> FALSE, runs |-> 0, reports |-> 0, open |-> TRUE,
     report |-> FALSE]

\* on_ready: SCHEDULE_ENABLED and CHANNEL_ID > 0, scheduled_gex.start();
\* the first iteration is due at once
OnReady(start) ==
    /\ thr["scheduled"].pc = "idle"
    /\ today' = start[1]
    /\ clock' = start[2]
    /\ thr' = [thr EXCEPT !["scheduled"].pc = "due"]
    /\ last' = [Idle EXCEPT !.op = "on_ready", !.caller = "on_ready",
                            !.now = start[1], !.price = start[2], !.out = NoHour]
    /\ UNCHANGED <<memFile, ncalls, nsteps, dpFeed, nfill, accVars>>

\* one iteration of scheduled_gex; channel: bot.get_channel found the
\* channel, text_msg: get_gex_report returned a message
ScheduledGex(channel, text_msg) ==
    LET same == last.out.runs > 0 /\ last.out.day = today /\ last.out.hour = Hour(clock)
        h == IF same THEN last.out
             ELSE [NoHour EXCEPT !.day = today, !.hour = Hour(clock),
                                 !.first = (last.op = "on_ready")]
        report == ReportDue(today, clock, channel) /\ text_msg
    IN
    /\ thr["scheduled"].pc = "due"
    /\ thr' = [thr EXCEPT !["scheduled"].pc = "sleeping"]
    /\ last' = [Idle EXCEPT !.op = "scheduled_gex", !.caller = "scheduled_gex",
                            !.now = today, !.price = clock,
                            !.out = [h EXCEPT !.runs = @ + 1,
                                              !.reports = @ + (IF report THEN 1 ELSE 0),
                                              !.open = @ /\ channel /\ text_msg,
                                              !.report = report]]
    /\ UNCHANGED <<memFile, today, ncalls, nsteps, dpFeed, nfill, accVars, clock>>

\* the loop sleeps until 30 minutes after the iteration began
Sleep ==
    /\ thr["scheduled"].pc = "sleeping"
    /\ clock' = (clock + LOOP_MINUTES) % DAY_MINUTES
    /\ today' = IF clock + LOOP_MINUTES >= DAY_MINUTES THEN (today + 1) % 7 ELSE today
    /\ thr' = [thr EXCEPT !["scheduled"].pc = "due"]
    /\ UNCHANGED <<memFile, ncalls, nsteps, last, dpFeed, nfill, accVars>>

SchedNext ==
    \/ \E start \in StartTimes : OnReady(start)
    \/ \E channel \in BOOLEAN, text_msg \in BOOLEAN : ScheduledGex(channel, text_msg)
    \/ Sleep

\* the event loop runs every due iteration and every sleep ends
SchedSpec ==
    Init /\ [][SchedNext]_vars /\ WF_vars(Sleep)
         /\ WF_vars(\E channel \in BOOLEAN, text_msg \in BOOLEAN : ScheduledGex(channel, text_msg))

----------------------------------------------------------------------------
(* Vocabulary of the properties *)

Stored(t) == StoreGet(LoadMemory(memFile), t)

Updated == last.op = "update_levels"

SameCent(p, q) == Round2(p) = Round2(q)

\* the zones of the last scan that pass the volume threshold, as indices
Qualifying == {i \in 1..Len(last.zones) : last.zones[i].volume >= 250000}

\* the qualifying zones of the last scan at the cent of price p
MatchingZones(p) == {i \in Qualifying : SameCent(last.zones[i].strike, p)}

MaxVolume(v, S) ==
    IF \E i \in S : last.zones[i].volume > v
    THEN CHOOSE w \in {last.zones[i].volume : i \in S} :
            \A i \in S : last.zones[i].volume <= w
    ELSE v

\* the levels the last call appended in step 2
Inserted == SubSeq(last.run.merged, Len(last.run.kept) + 1, Len(last.run.merged))

\* the cents of qualifying zones of the last scan that no active level had
NewCents ==
    {Round2(last.zones[i].strike) : i \in
        {j \in Qualifying : \A k \in 1..Len(last.run.kept) :
            ~SameCent(last.zones[j].strike, last.run.kept[k].price)}}

----------------------------------------------------------------------------
(* C1: no ticker's stored list holds two levels whose prices are equal     *)
(* after rounding to 2 decimals, also when one scan brings several zones   *)
(* of one cent.                                                            *)

C1_NoDuplicateCent ==
    \A t \in DOMAIN LoadMemory(memFile) :
        \A i, j \in 1..Len(Stored(t)) :
            i # j => Round2(Stored(t)[i].price) # Round2(Stored(t)[j].price)

\* a scan with two zones of one cent has been stored as one level
C1_Witness ==
    /\ Updated
    /\ \E i, j \in Qualifying :
          i # j /\ SameCent(last.zones[i].strike, last.zones[j].strike)
    /\ \E k \in 1..Len(Stored(last.run.ticker)) :
          SameCent(Stored(last.run.ticker)[k].price, 601070)

----------------------------------------------------------------------------
(* C3: step 1 of update_levels drops an existing level exactly when its    *)
(* age exceeds 14 days or the current price is within 0.15% of it; the     *)
(* other levels are carried forward unchanged and in order.  A level at    *)
(* 601.07 is dropped by a call with current price 601.08.                  *)

C3_Dropped(lvl) ==
    \/ last.now - lvl.added > 14
    \/ /\ last.price > 0
       /\ Abs(last.price - lvl.price) * 10000 < 15 * last.price

C3_StepOne ==
    Updated =>
        /\ last.run.kept = SelectSeq(last.run.before, LAMBDA lvl : ~C3_Dropped(lvl))
        /\ (last.price = 601080 =>
              \A k \in 1..Len(last.run.kept) : last.run.kept[k].price # 601070)

\* the call dropped the level at 601.07 at price 601.08 and kept another one
C3_Witness ==
    /\ Updated
    /\ last.price = 601080
    /\ \E k \in 1..Len(last.run.before) :
          last.run.before[k].price = 601070 /\ last.run.before[k].volume > 1200000
    /\ last.run.kept # <<>>

----------------------------------------------------------------------------
(* C5: a candidate zone with volume >= 250000 at the cent of an active     *)
(* level raises that level's volume to the maximum of the old and the new  *)
(* volume and its seen_count by one (per such zone), and adds no level.    *)

----------------------------------------------------------------------------
(* C6: a zone below the remember threshold (250000) is never inserted and  *)
(* never changes a level: every stored level has volume >= 250000, and     *)
(* every level a call touches has a qualifying zone at its cent.           *)

----------------------------------------------------------------------------
(* C7: one call inserts at most 3 new levels, they are the highest-volume  *)
(* qualifying candidates that match no active level, and refreshing a      *)
(* tracked level does not use up the budget.                               *)

C7_NewLevelBudget ==
    Updated =>
        /\ Len(Inserted) <= 3
        /\ Len(Inserted) = (IF Cardinality(NewCents) < 3 THEN Cardinality(NewCents) ELSE 3)
        /\ \A k \in 1..Len(Inserted) :
              /\ Round2(Inserted[k].price) \in NewCents
              /\ Inserted[k].added = last.now
              /\ \A i \in Qualifying :
                    (/\ Round2(last.zones[i].strike) \in NewCents
                     /\ \A m \in 1..Len(Inserted) :
                           ~SameCent(Inserted[m].price, last.zones[i].strike))
                    => last.zones[i].volume <= Inserted[k].volume

\* a call refreshed a tracked level and still inserted three new ones
C7_Witness ==
    /\ Updated
    /\ Len(Inserted) = 3
    /\ \E k \in 1..Len(last.run.kept) : MatchingZones(last.run.kept[k].price) # {}

----------------------------------------------------------------------------
(* C2 as stated: a stored level is still stored after every call in which  *)
(* its age is <= 14 days and the price is not within 0.15% of it, and it   *)
(* is absent after a call whose price is within 0.15% of it.               *)

C2_Within(lvl) ==
    last.price > 0 /\ Abs(last.price - lvl.price) * 10000 < 15 * last.price

C2_InResult(lvl) ==
    {i \in 1..Len(last.run.result) : SameCent(last.run.result[i].price, lvl.price)}

----------------------------------------------------------------------------
(* C8: the stored list of a ticker has at most 20 levels and is sorted by  *)
(* volume descending, and a level the last call cut off has no more        *)
(* volume than any level it kept.                                          *)

C8_SortedAndCapped ==
    /\ \A t \in DOMAIN LoadMemory(memFile) :
          /\ Len(Stored(t)) <= 20
          /\ \A i, j \in 1..Len(Stored(t)) :
                i < j => Stored(t)[i].volume >= Stored(t)[j].volume
    /\ Updated =>
          /\ Stored(last.run.ticker) = last.run.result
          /\ \A m \in 1..Len(last.run.merged) :
                (\A i \in 1..Len(last.run.result) :
                    ~SameCent(last.run.result[i].price, last.run.merged[m].price))
                => \A i \in 1..Len(last.run.result) :
                      last.run.merged[m].volume <= last.run.result[i].volume

\* the last call had more than 20 levels and cut some off
C8_Witness ==
    /\ Updated
    /\ Len(last.run.merged) > 20
    /\ Len(Stored(last.run.ticker)) = 20
    /\ \E m \in 1..Len(last.run.merged) : last.run.merged[m].volume > 1000000

----------------------------------------------------------------------------
(* C4: when two update_levels calls overlap, no update is lost: once both  *)
(* have returned, the file holds what running the two calls one after the  *)
(* other, in one of the two orders, would have stored.                     *)

C4_After(store, call) ==
    StorePut(store, Upper(call.ticker),
             UpdateLevelsRun(store, call.ticker, call.zones, call.price, today).result)

C4_NoLostUpdate ==
    (\A th \in Threads : thr[th].pc = "done") =>
        /\ memFile.kind = "ok"
        /\ \/ memFile.data = C4_After(C4_After(EmptyStore, thr["scheduled"]), thr["command"])
           \/ memFile.data = C4_After(C4_After(EmptyStore, thr["command"]), thr["scheduled"])

----------------------------------------------------------------------------
(* C9: when the persisted store cannot be read or parsed, load_memory and  *)
(* _load behave as an empty store, and the operation that called them      *)
(* (update_levels, get_active_levels, save_daily_prints,                   *)
(* detect_accumulation) completes without raising.                         *)

C9_AsEmptyStore ==
    CASE last.op = "update_levels" -> last.run.before = <<>>
      [] last.op = "get_active_levels" -> last.out = <<>>
      [] last.op = "detect_accumulation" -> last.out = <<>>
      [] last.op = "save_daily_prints" ->
            \/ last.zones = <<>>
            \/ last.out = DictPut(EmptyDict, last.ticker,
                                  [d \in {last.now} |-> TradesOf(last.zones)])
      [] OTHER -> TRUE

C9_AsStated ==
    last.unreadable => (~last.raised /\ C9_AsEmptyStore)

----------------------------------------------------------------------------
(* C10: after a dark-pool retrieval that found levels, the zones on the    *)
(* chart feed are the active levels of the Sticky Level Memory, as the     *)
(* memory update returned them (the four of highest volume, by price),     *)
(* and not the zones of the raw scan.                                      *)

C10_MemoryZones ==
    LET top == GetTopZones(StorePut(EmptyStore, last.ticker, last.run.result),
                           last.ticker, 4, 0)
    IN [i \in 1..Len(top) |-> top[i].price]

C10_AsStated ==
    (last.caller = "_push_dp_to_tradingview" /\ last.op = "update_levels"
        /\ last.run.result # <<>>)
    => /\ dpFeed[last.ticker] # <<>>
       /\ dpFeed[last.ticker][Len(dpFeed[last.ticker])] = C10_MemoryZones

----------------------------------------------------------------------------
(* C11: _cluster_dp_levels takes the observations in ascending price order *)
(* and adds one to the current cluster exactly when its price is within    *)
(* the tolerance of the volume-weighted centroid of the members collected  *)
(* so far; otherwise it closes the cluster and starts a new one. Each      *)
(* cluster gives one zone: price the centroid (to the cent), volume and    *)
(* trades the sums, num_levels the member count, so that volume and the    *)
(* number of observations are conserved.                                   *)

C11_Applies ==
    /\ ~last.raised
    /\ \/ last.op = "_cluster_dp_levels"
       \/ last.op = "get_dark_pool_levels" /\ last.out.primary

C11_Tol == IF last.op = "_cluster_dp_levels" THEN last.price ELSE DEFAULT_TOL

RECURSIVE C11_Flatten(_)
C11_Flatten(clusters) ==
    IF clusters = <<>> THEN <<>> ELSE Head(clusters) \o C11_Flatten(Tail(clusters))

C11_Within(price, members, tol) ==
    LET c == ClusterCenter(members) IN
    Abs(price * c.d - c.n) * TOL_DEN < tol * c.n

C11_IsCentroid(price, members) ==
    LET c == ClusterCenter(members) IN
    /\ price % 10 = 0
    /\ Abs(price * c.d - c.n) * 2 <= 10 * c.d

RECURSIVE C11_SumLevels(_)
C11_SumLevels(zones) ==
    IF zones = <<>> THEN 0 ELSE Head(zones).num_levels + C11_SumLevels(Tail(zones))

----------------------------------------------------------------------------
(* C12: clustering the observations (459.27, 500, 10) and (459.94, 300, 8) *)
(* with the 0.15% tolerance gives two separate zones.                      *)

C12_AsStated ==
    (last.op = "_cluster_dp_levels" /\ last.zones = FeedPair /\ last.price = DEFAULT_TOL)
    => Len(last.out.clustered) = 2

----------------------------------------------------------------------------
(* C13: clustering is idempotent: clustering the zones _cluster_dp_levels  *)
(* returned, with the same tolerance, gives zones of the same price,       *)
(* volume and trades.                                                      *)

C13_Zones(zones) ==
    [i \in 1..Len(zones) |->
        [price |-> zones[i].price, volume |-> zones[i].volume, trades |-> zones[i].trades]]

C13_AsStated ==
    (last.op = "_cluster_dp_levels" /\ ~last.raised)
    => LET again == ClusterDpLevels(last.out.clustered, last.price)
       IN /\ ~again.raised
          /\ C13_Zones(again.zones) = C13_Zones(last.out.clustered)

----------------------------------------------------------------------------
(* C14: when the primary aggregation gives fewer than 3 usable zones       *)
(* (after the spot filter and the clustering), get_dark_pool_levels falls  *)
(* back to the options-derived zones and labels the result                 *)
(* 'options-derived'; a result labelled 'chartexchange' therefore carries  *)
(* at least 3 zones.                                                       *)

C14_AsStated ==
    (last.op = "get_dark_pool_levels" /\ ~last.raised) =>
        /\ (Len(last.out.clustered) < 3 /\ last.price # 0 /\ last.out.gex # <<>>)
              => /\ last.out.source = "options-derived"
                 /\ last.out.levels = DeriveDpLevelsFromOptions(last.price, last.out.gex)
        /\ last.out.source = "chartexchange" => Len(last.out.levels) >= 3

----------------------------------------------------------------------------
(* C15: every zone of the primary aggregation whose volume is above        *)
(* 500000 is tagged Block Trade wherever it lies; any other zone is tagged *)
(* DP Resistance if its price is more than 0.5% above spot, DP Support if  *)
(* more than 0.5% below, High Volume otherwise.                            *)

C15_Band(strike, spot) ==
    IF 1000 * (strike - spot) > 5 * spot THEN "DP Resistance"
    ELSE IF 1000 * (spot - strike) > 5 * spot THEN "DP Support"
    ELSE "High Volume"

C15_AsStated ==
    (last.op = "get_dark_pool_levels" /\ ~last.raised) =>
        \A i \in 1..Len(last.out.zones) :
            LET z == last.out.zones[i] IN
            /\ z.volume > 500000 => z.type = "Block Trade"
            /\ (z.volume <= 500000 /\ last.price # 0)
                  => z.type = C15_Band(z.strike, last.price)

----------------------------------------------------------------------------
(* C16: the primary aggregation gives at most 8 zones, the clustered zones *)
(* of highest volume (no zone left out has more volume than one kept),     *)
(* each within 20% of spot when spot is given, in ascending price order.   *)

C16_Applies ==
    last.op = "get_dark_pool_levels" /\ ~last.raised /\ last.out.primary

C16_TopEight ==
    C16_Applies =>
        LET zs == last.out.zones
            cs == last.out.clustered
        IN /\ Len(zs) <= 8
           /\ Len(zs) = IF Len(cs) < 8 THEN Len(cs) ELSE 8
           /\ \A i \in 1..Len(zs) - 1 : zs[i].strike <= zs[i + 1].strike
           /\ \E S \in SUBSET (1..Len(cs)) :
                 /\ Cardinality(S) = Len(zs)
                 /\ \A i \in S : \E k \in 1..Len(zs) :
                       /\ zs[k].strike = cs[i].price
                       /\ zs[k].volume = cs[i].volume
                       /\ zs[k].trades = cs[i].trades
                 /\ \A i \in (1..Len(cs)) \ S : \A j \in S :
                       cs[i].volume <= cs[j].volume
           /\ last.price # 0 =>
                 \A i \in 1..Len(zs) : 5 * Abs(zs[i].strike - last.price) <= last.price

\* more than 8 clustered zones, and an observation the spot filter dropped
C16_Witness ==
    /\ C16_Applies
    /\ last.price # 0
    /\ Len(last.out.clustered) > 8
    /\ Len(last.out.zones) = 8
    /\ Len(last.out.filtered) < Len(last.out.levels_data)

----------------------------------------------------------------------------
(* C17: enrich_levels_with_direction tags each zone Buy if the bid-side    *)
(* volume of the prints within the tolerance band of its price is more     *)
(* than 20% above the ask-side volume, Sell if the ask side is more than   *)
(* 20% above the bid side, Neutral otherwise; with no prints the zones     *)
(* come back unchanged, without a side tag.                                *)

C17_Applies ==
    \/ last.op = "enrich_levels_with_direction"
    \/ last.op = "get_dark_pool_levels" /\ ~last.raised
          /\ last.out.source = "chartexchange"

RECURSIVE C17_Total(_, _)
C17_Total(S, prints) ==
    IF S = {} THEN 0
    ELSE LET i == CHOOSE x \in S : TRUE IN prints[i].size + C17_Total(S \ {i}, prints)

C17_InBand(q, strike) == Abs(q.price - strike) <= (15 * strike) \div 10000

C17_Bid(prints, strike) ==
    C17_Total({i \in 1..Len(prints) :
                  C17_InBand(prints[i], strike) /\ HasBid(prints[i].side)}, prints)

C17_Ask(prints, strike) ==
    C17_Total({i \in 1..Len(prints) :
                  /\ C17_InBand(prints[i], strike)
                  /\ HasAsk(prints[i].side) /\ ~HasBid(prints[i].side)}, prints)

C17_Direction ==
    C17_Applies =>
        LET before == last.out.zones
            after == last.out.levels
            prints == last.out.prints
        IN /\ Len(after) = Len(before)
           /\ prints = <<>> =>
                 /\ after = before
                 /\ \A i \in 1..Len(after) : "side" \notin DOMAIN after[i]
           /\ prints # <<>> =>
                 \A i \in 1..Len(after) :
                    LET bid == C17_Bid(prints, before[i].strike)
                        ask == C17_Ask(prints, before[i].strike)
                    IN /\ after[i].strike = before[i].strike
                       /\ after[i].volume = before[i].volume
                       /\ after[i].type = before[i].type
                       /\ after[i].side \in {"Buy", "Sell", "Neutral"}
                       /\ after[i].side = "Buy" <=> 10 * bid > 12 * ask
                       /\ after[i].side = "Sell" <=> 10 * ask > 12 * bid

\* one zone of each tag, the Neutral one with unequal sides
C17_Witness ==
    /\ C17_Applies
    /\ last.out.prints # <<>>
    /\ \E i \in 1..Len(last.out.levels) : last.out.levels[i].side = "Buy"
    /\ \E i \in 1..Len(last.out.levels) : last.out.levels[i].side = "Sell"
    /\ \E i \in 1..Len(last.out.levels) :
          /\ last.out.levels[i].side = "Neutral"
          /\ last.out.levels[i].bid_vol > last.out.levels[i].ask_vol

----------------------------------------------------------------------------
(* C18: detect_accumulation never returns a signal for a cluster whose     *)
(* trades fall on one day only, whatever its volume, and every cluster     *)
(* active on 2 or more days with total volume of at least 100000 is among  *)
(* the returned signals.                                                   *)

C18_Days(c) == Cardinality({c.trades[i].date : i \in 1..Len(c.trades)})

C18_Signals(c) ==
    {i \in 1..Len(last.out) :
        /\ last.out[i].total_vol = SumShares(c.trades)
        /\ last.out[i].total_trades = Len(c.trades)
        /\ last.out[i].days = C18_Days(c)
        /\ Abs(last.out[i].price * c.ref_d - c.ref_n) * 2 <= 10 * c.ref_d}

C18_AsStated ==
    last.op = "detect_accumulation" =>
        /\ \A i \in 1..Len(last.out) : last.out[i].days >= 2
        /\ \A k \in 1..Len(last.zones) :
              LET c == last.zones[k] IN
              /\ C18_Days(c) = 1 => C18_Signals(c) = {}
              /\ (C18_Days(c) >= 2 /\ SumShares(c.trades) >= 100000)
                    => C18_Signals(c) # {}

----------------------------------------------------------------------------
(* C19: after every write of save_daily_prints for a ticker, the ticker's  *)
(* archive holds only entries of the last 7 calendar days, at most 7 day   *)
(* keys; a second write on the same day replaces the day's entry.          *)

C19_AsStated ==
    (last.op = "save_daily_prints" /\ ~last.raised /\ last.zones # <<>>) =>
        LET days == DOMAIN last.out[last.ticker] IN
        /\ Cardinality(days) <= 7
        /\ \A d \in days : last.now - 7 < d /\ d <= last.now
        /\ last.out[last.ticker][last.now] = TradesOf(last.zones)

----------------------------------------------------------------------------
(* C20: exposure per strike *)

C20_Computed == last.op \in {"calculate_gex", "_calculate_gex_from_barchart"}

C20_Signs(row) == FSign(row.call_gex) >= 0 /\ FSign(row.put_gex) <= 0

\* contracts of the chain on the strike, by type
C20_Count(strike, type) ==
    Cardinality({i \in 1..Len(last.zones) :
                    last.zones[i].strike = strike /\ last.zones[i].type = type})

\* |net_gex - (call_gex + put_gex)| <= 2^-40 * (call_gex - put_gex)
C20_WithinRounding(row) ==
    LET error == FSub(row.net_gex, FAdd(row.call_gex, row.put_gex))
        bound == FMul([neg |-> FALSE, m |-> <<1>>, e |-> -40],
                      FSub(row.call_gex, row.put_gex))
    IN  FSign(FSub([error EXCEPT !.neg = FALSE], bound)) <= 0

----------------------------------------------------------------------------
(* C21, C22: key levels *)

C21_Computed == last.op \in {"find_key_levels", "barchart_levels"}

C21_Rows == SortByStrike(last.zones)

\* adjacent pairs whose net exposures have opposite signs
C21_Pairs ==
    {i \in 1..(Len(C21_Rows) - 1) :
        FSign(C21_Rows[i].net_gex) * FSign(C21_Rows[i + 1].net_gex) = -1}

\* S1 + |v1| / (|v1| + |v2|) * (S2 - S1)
C21_Interpolation(i) ==
    LET v1 == FAbs(C21_Rows[i].net_gex)
        v2 == FAbs(C21_Rows[i + 1].net_gex)
        S1 == StrikeFloat(C21_Rows[i].strike)
        S2 == StrikeFloat(C21_Rows[i + 1].strike)
    IN  FAdd(S1, FMul(FDiv(v1, FAdd(v1, v2)), FSub(S2, S1)))

C21_Distance(i) == FAbs(FSub(C21_Interpolation(i), last.price))

C21_Closest(i) ==
    /\ i \in C21_Pairs
    /\ \A j \in C21_Pairs : ~FLess(C21_Distance(j), C21_Distance(i))

\* C21 as stated: gamma_flip is the interpolation of the sign-changing pair
\* closest to spot, and the regime is Positive exactly when spot is above
\* the reported gamma_flip.
C21_AsStated ==
    (C21_Computed /\ "gamma_flip" \in DOMAIN last.out) =>
        /\ \E i \in C21_Pairs :
            C21_Closest(i) /\ last.out["gamma_flip"] = C21_Interpolation(i)
        /\ last.out["gamma_regime"] = "Positiv"
            <=> FLess(last.out["gamma_flip"], last.price)

\* C21, amended: gamma_flip is reported exactly when some adjacent pair of
\* strikes changes sign; it is the interpolation of the pair whose crossing
\* is closest to spot (the lowest such pair when several are equally close)
\* rounded to 2 decimals, and the regime is Positive exactly when spot is
\* above the crossing before rounding.
C21_RoundedCrossing ==
    (C21_Computed /\ last.out # NoLevels) =>
        /\ "gamma_flip" \in DOMAIN last.out <=> C21_Pairs # {}
        /\ "gamma_regime" \in DOMAIN last.out <=> C21_Pairs # {}
        /\ C21_Pairs # {} =>
            \E i \in C21_Pairs :
                /\ C21_Closest(i)
                /\ \A j \in C21_Pairs :
                    C21_Distance(j) = C21_Distance(i) => i <= j
                /\ last.out["gamma_flip"] \in {PyRound2(C21_Interpolation(i)),
                                               NpRound2(C21_Interpolation(i))}
                /\ last.out["gamma_regime"] = "Positiv"
                    <=> FLess(C21_Interpolation(i), last.price)

\* two crossings, 605 and 615, at spot 614: the second one is reported
C21_Witness ==
    /\ last.op = "find_key_levels"
    /\ last.price = FromInt(614)
    /\ Len(last.zones) = 3
    /\ C21_Pairs = {1, 2}
    /\ C21_Interpolation(1) = FromInt(605)
    /\ last.out["gamma_flip"] = FromInt(615)
    /\ last.out["gamma_regime"] = "Negativ"

C22_Some(Has(_)) == \E i \in 1..Len(last.zones) : Has(last.zones[i])

C22_Strikes == {StrikeFloat(last.zones[i].strike) : i \in 1..Len(last.zones)}

\* C22: find_key_levels omits call_wall when no strike has positive call
\* exposure, put_wall when none has negative put exposure, hvl when none has
\* traded volume, gamma_flip and the regime when no adjacent pair changes
\* sign; a level that is reported is a strike of the frame or a crossing
\* between two of them, never zero; an empty frame gives an empty result.
C22_AbsentNotZero ==
    last.op = "find_key_levels" =>
        LET HasCall(r)   == FSign(r.call_gex) > 0
            HasPut(r)    == FSign(r.put_gex) < 0
            HasVolume(r) == r.total_volume > 0
        IN  /\ "call_wall" \in DOMAIN last.out <=> C22_Some(HasCall)
            /\ "put_wall" \in DOMAIN last.out <=> C22_Some(HasPut)
            /\ "hvl" \in DOMAIN last.out <=> C22_Some(HasVolume)
            /\ "gamma_flip" \in DOMAIN last.out <=> C21_Pairs # {}
            /\ "gamma_regime" \in DOMAIN last.out <=> C21_Pairs # {}
            /\ \A k \in DOMAIN last.out \cap {"call_wall", "put_wall", "hvl"} :
                last.out[k] \in C22_Strikes
            /\ "gamma_flip" \in DOMAIN last.out => FSign(last.out["gamma_flip"]) > 0
            /\ last.zones = <<>> => last.out = EmptyDict

\* a frame of three strikes without exposure or volume: none of the four
\* levels is reported
C22_Witness ==
    /\ last.op = "find_key_levels"
    /\ Len(last.zones) = 3
    /\ \A i \in 1..3 : FSign(last.zones[i].net_gex) = 0 /\ last.zones[i].total_volume = 0
    /\ DOMAIN last.out = {"abs_gamma_strike"}

----------------------------------------------------------------------------
(* C23 *)

C23_Parsed == last.op = "parse_options"

C23_Counted ==
    SumInt([i \in 1..5 |->
        last.out.skipped[<<"no_symbol", "no_strike", "out_of_range", "expired", "no_iv">>[i]]])

\* C23: parse_options accounts for every raw record: the accepted contracts
\* plus the five rejection counters add up to the number of input records
C23_AsStated ==
    C23_Parsed => Len(last.out.records) + C23_Counted = Len(last.zones)

\* a record whose iv is not a number was dropped and no counter moved
C23_Dropped ==
    /\ C23_Parsed
    /\ FSign(last.price) > 0
    /\ \E i \in 1..Len(last.zones) : last.zones[i].text = "iv"
    /\ Len(last.out.records) + C23_Counted < Len(last.zones)

\* what does hold of every accepted contract: strike within 20% of spot,
\* not expired, iv above zero
C23_Accepted ==
    C23_Parsed =>
        \A i \in 1..Len(last.out.records) :
            LET r == last.out.records[i] IN
            /\ ~FLess(FMul(STRIKE_RANGE_PCT, last.price),
                      FAbs(FSub(StrikeFloat(r.strike), last.price)))
            /\ r.dte >= 0 /\ r.expiration >= last.now
            /\ FSign(r.iv) > 0

----------------------------------------------------------------------------
(* C24 *)

C24_Clustering == last.op \in {"_cluster_dp_levels", "detect_accumulation"}

\* C24: the clustering passes return a result for every input: neither
\* _cluster_dp_levels nor detect_accumulation raises, also on observations
\* without volume and trades without shares
C24_AsStated == C24_Clustering => ~last.raised

\* _cluster_dp_levels raised on a list whose cheapest observation has no volume
C24_Raised ==
    /\ last.op = "_cluster_dp_levels"
    /\ last.zones = FeedNoVolume
    /\ last.raised

----------------------------------------------------------------------------
(* C25 *)

\* the levels kept by step 1 that a qualifying zone of the scan matches:
\* same cent, and the first such level in the list
C25_Matched ==
    {i \in 1..Len(last.run.kept) :
        \E k \in 1..Len(last.zones) :
            /\ last.zones[k].volume >= MIN_VOLUME_TO_REMEMBER
            /\ FirstMatch(last.run.kept, Round2(last.zones[k].strike), 1) = i}

\* C25: a level matched by a qualifying zone of the scan has its last-seen
\* date set to the day of the call, whether or not the zone's volume is
\* higher, and keeps its first-seen date
C25_AsStated ==
    last.op = "update_levels" =>
        \A i \in C25_Matched :
            /\ last.run.merged[i].last_seen = last.now
            /\ last.run.merged[i].added = last.run.kept[i].added

\* a level seen again a day later with no more volume keeps its old date
C25_Stale ==
    /\ last.op = "update_levels"
    /\ \E i \in C25_Matched :
          /\ last.run.merged[i].last_seen < last.now
          /\ last.run.merged[i].seen_count = last.run.kept[i].seen_count + 1

----------------------------------------------------------------------------
(* C26 *)

\* C26: no level of the list update_levels returns and persists lies within
\* the hit tolerance of the current price of the call, and get_active_levels
\* with that price returns exactly that list
C26_AsStated ==
    last.op = "update_levels" =>
        /\ \A i \in 1..Len(last.out) : ~IsHit(last.out[i], last.price)
        /\ GetActiveLevels(LoadMemory(memFile), last.ticker, last.price) = last.out

\* a zone of the scan within the tolerance of the current price was stored
\* as a new level and returned
C26_StoredAtSpot ==
    /\ last.op = "update_levels"
    /\ \E i \in 1..Len(last.out) :
          /\ IsHit(last.out[i], last.price)
          /\ last.out[i].added = last.now
    /\ StoreGet(LoadMemory(memFile), last.ticker) = last.out
    /\ GetActiveLevels(LoadMemory(memFile), last.ticker, last.price) # last.out

----------------------------------------------------------------------------
(* C27 *)

\* C27: seen_count counts the calendar days on which a matching zone was
\* observed: one call raises it by at most one, and it never exceeds the
\* number of days from the level's first-seen day to the day of the call
C27_AsStated ==
    last.op = "update_levels" =>
        /\ \A i \in 1..Len(last.run.kept) :
              last.run.merged[i].seen_count <= last.run.kept[i].seen_count + 1
        /\ \A i \in 1..Len(last.out) :
              last.out[i].seen_count <= last.now - last.out[i].added + 1

\* a level first seen on the day of the call is counted twice
C27_TwiceADay ==
    /\ last.op = "update_levels"
    /\ \E i \in 1..Len(last.out) :
          /\ last.out[i].added = last.now
          /\ last.out[i].seen_count = 2

----------------------------------------------------------------------------
(* C30 *)

C30_Readers == {"get_active_levels", "get_top_zones", "format_memory_discord"}

C30_Keys == DOMAIN memFile.data \cup DOMAIN memFile'.data

\* C30: a call of update_levels for a ticker changes no other ticker's entry
\* of the persisted store, and get_active_levels, get_top_zones and
\* format_memory_discord leave the persisted store as it is
C30_Frame ==
    [][ /\ (ncalls' # ncalls /\ last'.op = "update_levels") =>
              \A u \in C30_Keys \ {last'.ticker} :
                  StoreGet(memFile'.data, u) = StoreGet(memFile.data, u)
        /\ (ncalls' # ncalls /\ last'.op \in C30_Readers) => memFile' = memFile
      ]_vars

\* update_levels changed the entry of QQQ while the store held levels of GLD
C30_Witness ==
    /\ last.op = "update_levels"
    /\ last.ticker = "QQQ"
    /\ last.run.before # last.out
    /\ StoreGet(memFile.data, "QQQ") = last.out
    /\ StoreGet(memFile.data, "GLD") # <<>>

----------------------------------------------------------------------------
(* C28 *)

C28_Retrieved ==
    thr["command"].pc = "retrieved" /\ thr["command"].zones # <<>>

C28_Updated ==
    /\ thr["command"].pc \in {"updated", "done"}
    /\ last.op = "update_levels"
    /\ last.zones = thr["command"].zones

C28_Pushed ==
    /\ thr["command"].ticker \in DOMAIN dpFeed
    /\ Len(dpFeed[thr["command"].ticker]) > Len(thr["command"].memory)

\* C28: a dark-pool retrieval that returned levels is followed by the memory
\* update and then by a push of the zones to the chart feed
C28_AsStated == C28_Retrieved ~> (C28_Updated /\ <>C28_Pushed)

\* what does follow: the memory update
C28_UpdateFollows == C28_Retrieved ~> C28_Updated

----------------------------------------------------------------------------
(* C29 *)

\* the loop, started before the hour, has run both of its iterations of a
\* scheduled hour of a weekday, each with the channel reachable and a report
\* to send
C29_HourDone ==
    /\ last.op = "scheduled_gex"
    /\ ~last.out.first
    /\ Weekday(last.out.day) < 5
    /\ last.out.hour \in SCHEDULE_HOURS
    /\ last.out.runs = 2
    /\ last.out.open

\* C29: in each of the hours 14, 17 and 20 UTC of a weekday the loop posts
\* the report, whatever the minute it was started, and once only; it posts
\* at no other time
C29_AsStated ==
    /\ C29_HourDone => last.out.reports = 1
    /\ last.op = "scheduled_gex" =>
          /\ last.out.reports <= 1
          /\ last.out.report =>
                (Weekday(last.now) < 5 /\ Hour(last.price) \in SCHEDULE_HOURS)

\* a scheduled hour of a weekday went by without a report
C29_Missed == C29_HourDone /\ last.out.reports = 0

\* what does hold: at most one report an hour, on weekdays in the hours
\* 14, 17 and 20 only and within five minutes of the hour's start
C29_OnlyScheduled ==
    last.op = "scheduled_gex" =>
        /\ last.out.reports <= 1
        /\ last.out.report =>
              /\ Weekday(last.now) < 5
              /\ Hour(last.price) \in SCHEDULE_HOURS
              /\ last.price % 60 <= MINUTE_WINDOW

====
